---------------------------- MODULE Spec2Model ----------------------------
(***************************************************************************)
(* Camelot engine: rules primitives (Logic), turn generator                *)
(* (MoveGenerator) and the iterative-deepening driver (Search).            *)
(*                                                                         *)
(* A square "E6" is the pair <<file, rank>> = <<4, 6>> that               *)
(* Coordinates.parseSquare returns for it (file A = 0 .. L = 11).          *)
(* A board is the map of its occupied squares; a square outside the map    *)
(* reads as null, as boardState[square] does for an empty square.          *)
(***************************************************************************)
EXTENDS Integers, Sequences, FiniteSets, TLC

VARIABLES
    board,        \* gameState.board_state
    side,         \* the colour to move (currentPlayer)
    phase,        \* "ready" | "generated"
    turns,        \* the CompleteTurn[] last returned by generateAllLegalTurns
    plies,        \* turns applied since the initial position
    \* one call of Search.searchIterativeDeepening
    pc,           \* position of the call in its code
    maxDepth,     \* argument maxDepth
    expired,      \* Date.now() - startTime >= timeLimit
    aborted,      \* this.aborted
    searchDepth,  \* depth, the loop variable of the deepening loop
    bestResult,   \* bestResult of searchIterativeDeepening
    orderedMoves, \* searchRoot: orderedMoves
    idx,          \* searchRoot: position of the move loop in orderedMoves
    bestMove,     \* searchRoot: bestMove
    bestScore,    \* searchRoot: bestScore
    topMoves,     \* searchRoot: topMoves
    rootResult,   \* result, the SearchResult searchRoot returned
    ret,          \* the SearchResult searchIterativeDeepening returned
    \* history of the call
    completed,    \* the results recorded, one per completed iteration
    discarded,    \* the result of the iteration that was aborted
    observedAt,   \* the iteration in which shouldAbort first saw the deadline
    \* one call of Evaluator.evaluate or Logic.checkWinCondition
    evaluation,   \* the number evaluate returned, in tenths of a point
    winFor,       \* argument playerColor of checkWinCondition
    winner,       \* the string checkWinCondition returned, "null" for null
    \* a TranspositionTable
    table,        \* this.table: the entries in insertion order
    maxBytes,     \* maxSizeMB * 1024 * 1024, so that maxSize = maxBytes / 100
    lastOp,       \* the last call on the table, with the table before it
    \* CamelotEngine
    analysis,     \* the EngineAnalysis formatAnalysis returned
    \* the Zobrist keys of the TranspositionTable
    zobrist,      \* pieceKeys, turnKey, whiteCastleKeys, blackCastleKeys
    \* one call of Search.alphaBeta
    node,         \* its arguments, locals and position in its code
    \* one call of Logic.executeStep
    call,         \* the argument objects before and after it, and its result
    \* one mounted game screen (ComputerGameClient, or the online game page)
    client        \* its React state, and the timer callbacks not yet run

gvars == <<board, side, phase, turns, plies>>
svars == <<pc, maxDepth, expired, aborted, searchDepth, bestResult, orderedMoves, idx,
           bestMove, bestScore, topMoves, rootResult, ret, completed, discarded,
           observedAt>>
evars == <<evaluation, winFor, winner>>
tvars == <<table, maxBytes, lastOp>>
xvars == <<zobrist, node, call, client>>
vars == <<board, side, phase, turns, plies, pc, maxDepth, expired, aborted, searchDepth,
          bestResult, orderedMoves, idx, bestMove, bestScore, topMoves, rootResult,
          ret, completed, discarded, observedAt, evaluation, winFor, winner,
          table, maxBytes, lastOp, analysis, zobrist, node, call, client>>

---------------------------------------------------------------------------
(* Board geometry *)

Null == [type |-> "none", color |-> "none"]
NoSquare == <<-1, -1>>

Colors == {"white", "black"}
Opponent(c) == IF c = "white" THEN "black" ELSE "white"

FilesOfRank(r) ==
    CASE r \in {1, 16} -> 5..6
      [] r \in {2, 15} -> 2..9
      [] r \in {3, 14} -> 1..10
      [] r \in 4..13   -> 0..11
      [] OTHER         -> {}

isValidSquare(sq) == sq[1] \in FilesOfRank(sq[2])

\* the squares of one rank, by file
RankSquares(r) ==
    LET files == FilesOfRank(r)
        lo == CHOOSE f \in files : \A g \in files : f <= g
    IN [i \in 1..Cardinality(files) |-> <<lo + i - 1, r>>]

ALL_SQUARES ==
    RankSquares(1) \o RankSquares(2) \o RankSquares(3) \o RankSquares(4)
    \o RankSquares(5) \o RankSquares(6) \o RankSquares(7) \o RankSquares(8)
    \o RankSquares(9) \o RankSquares(10) \o RankSquares(11) \o RankSquares(12)
    \o RankSquares(13) \o RankSquares(14) \o RankSquares(15) \o RankSquares(16)

WHITE_CASTLE == << <<5, 1>>, <<6, 1>> >>
BLACK_CASTLE == << <<5, 16>>, <<6, 16>> >>

DIRECTIONS ==
    << <<0, 1>>, <<0, -1>>, <<1, 0>>, <<-1, 0>>,
       <<1, 1>>, <<-1, -1>>, <<1, -1>>, <<-1, 1>> >>

Range(s) == {s[i] : i \in 1..Len(s)}
Includes(s, x) == \E i \in 1..Len(s) : s[i] = x
Abs(x) == IF x < 0 THEN -x ELSE x

At(b, sq) == IF sq \in DOMAIN b THEN b[sq] ELSE Null

isOneAdjacent(from, to) ==
    LET df == Abs(from[1] - to[1])
        dr == Abs(from[2] - to[2])
    IN (df = 1 /\ dr = 0) \/ (df = 0 /\ dr = 1) \/ (df = 1 /\ dr = 1)

isTwoAdjacent(from, to) ==
    LET df == Abs(from[1] - to[1])
        dr == Abs(from[2] - to[2])
    IN (df = 2 /\ dr = 0) \/ (df = 0 /\ dr = 2) \/ (df = 2 /\ dr = 2)

getAdjacentSquare(sq, d) ==
    LET n == <<sq[1] + d[1], sq[2] + d[2]>>
    IN IF isValidSquare(n) THEN n ELSE NoSquare

Sign(x) == IF x = 0 THEN 0 ELSE IF x > 0 THEN 1 ELSE -1

getDirection(from, to) == <<Sign(to[1] - from[1]), Sign(to[2] - from[2])>>

---------------------------------------------------------------------------
(* Rules primitives (Logic) *)

createEmptyTurnState(startSquare) ==
    [moves |-> <<startSquare>>, capturedSquares |-> <<>>, mustContinue |-> FALSE]

isValidPlainMove(from, to, b) ==
    [valid |-> isOneAdjacent(from, to) /\ At(b, to) = Null]

Invalid == [valid |-> FALSE, middleSquare |-> NoSquare]

isValidCanter(from, to, b, playerColor) ==
    IF ~isTwoAdjacent(from, to) THEN Invalid
    ELSE LET middle == getAdjacentSquare(from, getDirection(from, to))
         IN IF middle = NoSquare THEN Invalid
            ELSE IF At(b, middle) = Null \/ At(b, middle).color # playerColor
            THEN Invalid
            ELSE IF At(b, to) # Null THEN Invalid
            ELSE [valid |-> TRUE, middleSquare |-> middle]

isValidJump(from, to, b, playerColor) ==
    IF ~isTwoAdjacent(from, to) THEN Invalid
    ELSE LET middle == getAdjacentSquare(from, getDirection(from, to))
         IN IF middle = NoSquare THEN Invalid
            ELSE IF At(b, middle) = Null \/ At(b, middle).color = playerColor
            THEN Invalid
            ELSE IF At(b, to) # Null THEN Invalid
            ELSE [valid |-> TRUE, middleSquare |-> middle]

TwoStep(sq, d) ==
    LET oneStep == getAdjacentSquare(sq, d)
    IN IF oneStep = NoSquare THEN NoSquare ELSE getAdjacentSquare(oneStep, d)

\* the squares of ALL_SQUARES, in its order, holding a piece of playerColor
PiecesOf(b, playerColor) ==
    SelectSeq(ALL_SQUARES, LAMBDA sq : At(b, sq).color = playerColor)

RECURSIVE Flatten(_)
Flatten(ss) == IF ss = <<>> THEN <<>> ELSE Head(ss) \o Flatten(Tail(ss))

\* the element of a one-element set
TheOne(S) == CHOOSE x \in S : TRUE

JumpsFrom(sq, b, playerColor) ==
    LET twoSteps == [i \in 1..Len(DIRECTIONS) |-> TwoStep(sq, DIRECTIONS[i])]
    IN SelectSeq(twoSteps,
                 LAMBDA t : t # NoSquare /\ isValidJump(sq, t, b, playerColor).valid)

checkFirstMovePossibleJumps(b, playerColor) ==
    LET ps == PiecesOf(b, playerColor)
    IN Flatten([i \in 1..Len(ps) |-> JumpsFrom(ps[i], b, playerColor)])


Castle(c) == IF c = "white" THEN WHITE_CASTLE ELSE BLACK_CASTLE

\* no square counted as own castle
ownCastleNone(playerColor) == <<>>

ownCastle(playerColor) ==
    IF playerColor = "white" THEN WHITE_CASTLE ELSE BLACK_CASTLE

\* the own castle taken for the opponent's
oppCastleSwapped(playerColor) ==
    IF playerColor = "white" THEN WHITE_CASTLE ELSE BLACK_CASTLE

oppCastle(playerColor) ==
    IF playerColor = "white" THEN BLACK_CASTLE ELSE WHITE_CASTLE

Failure(msg) ==
    [success |-> FALSE, error |-> msg, newBoardState |-> <<>>,
     newTurnState |-> createEmptyTurnState(NoSquare),
     legalNextMoves |-> <<>>, message |-> ""]

\* executeStep without its check of a Man's charge
StepErrorAllowCharge(to, b, turnState, playerColor) ==
    LET from == turnState.moves[Len(turnState.moves)]
        piece == At(b, from)
        plainCheck == isValidPlainMove(from, to, b)
        canterCheck == isValidCanter(from, to, b, playerColor)
        jumpCheck == isValidJump(from, to, b, playerColor)
    IN IF piece = Null \/ piece.color # playerColor
       THEN "No piece at current position"
       ELSE IF ~plainCheck.valid /\ ~canterCheck.valid /\ ~jumpCheck.valid
       THEN "Invalid move"
       ELSE IF plainCheck.valid /\ Len(turnState.moves) # 1
       THEN "Can only make a plain move on the first step"
       ELSE IF Len(turnState.capturedSquares) > 0 /\ ~jumpCheck.valid
       THEN "Must continue jumping"
       ELSE ""

\* the error checks of executeStep, in the order of the code; "" when none
StepError(to, b, turnState, playerColor) ==
    LET from == turnState.moves[Len(turnState.moves)]
        piece == At(b, from)
        isKnight == piece.type = "knight"
        plainCheck == isValidPlainMove(from, to, b)
        canterCheck == isValidCanter(from, to, b, playerColor)
        jumpCheck == isValidJump(from, to, b, playerColor)
        isFirstMove == Len(turnState.moves) = 1
        hasJumpedThisTurn == Len(turnState.capturedSquares) > 0
        totalCapturedSquares ==
            Len(turnState.capturedSquares) + (IF jumpCheck.valid THEN 1 ELSE 0)
        isCharge == jumpCheck.valid /\ totalCapturedSquares < Len(turnState.moves)
    IN IF piece = Null \/ piece.color # playerColor
       THEN "No piece at current position"
       ELSE IF ~plainCheck.valid /\ ~canterCheck.valid /\ ~jumpCheck.valid
       THEN "Invalid move"
       ELSE IF plainCheck.valid /\ ~isFirstMove
       THEN "Can only make a plain move on the first step"
       ELSE IF hasJumpedThisTurn /\ ~jumpCheck.valid
       THEN "Must continue jumping"
       ELSE IF isCharge /\ ~isKnight
       THEN "Only knights can jump after cantering"
       ELSE ""

\* a move that leaves the jumped piece on the board
MovePieceKeepCaptured(b, from, to, jumpCheck) ==
    [s \in (DOMAIN b \ {from}) \cup {to} |-> IF s = to THEN b[from] ELSE b[s]]

\* newBoardState: the piece moved from -> to, the jumped piece removed
MovePiece(b, from, to, jumpCheck) ==
    LET gone == IF jumpCheck.valid THEN {from, jumpCheck.middleSquare} ELSE {from}
    IN [s \in (DOMAIN b \ gone) \cup {to} |-> IF s = to THEN b[from] ELSE b[s]]

\* one entry of legalNextMoves for a direction, or <<>>
NextMoveInDirection(to, d, newBoardState, turnState, jumpCheck, isKnight, playerColor) ==
    LET twoStep == TwoStep(to, d)
        hasJumpedThisTurn == Len(turnState.capturedSquares) > 0
        hasJumpedThisMove == jumpCheck.valid
        totalCapturedSquares ==
            Len(turnState.capturedSquares) + (IF jumpCheck.valid THEN 1 ELSE 0)
        wouldBeCharge == totalCapturedSquares < Len(turnState.moves)
    IN IF twoStep = NoSquare THEN <<>>
       ELSE IF isValidJump(to, twoStep, newBoardState, playerColor).valid
               /\ (~wouldBeCharge \/ isKnight)
       THEN <<[type |-> "jump", to |-> twoStep]>>
       ELSE IF hasJumpedThisTurn \/ hasJumpedThisMove THEN <<>>
       ELSE IF isValidCanter(to, twoStep, newBoardState, playerColor).valid
               /\ ~Includes(ownCastle(playerColor), twoStep)
       THEN <<[type |-> "canter", to |-> twoStep]>>
       ELSE <<>>

\* executeStep keeps the {type, square} tag of each next move, which the
\* generator reads as move.type and move.to
LegalNextMoves(to, newBoardState, turnState, jumpCheck, isKnight, playerColor) ==
    LET all == Flatten([i \in 1..Len(DIRECTIONS) |->
                   NextMoveInDirection(to, DIRECTIONS[i], newBoardState, turnState,
                                       jumpCheck, isKnight, playerColor)])
        isJump(m) == m.type = "jump"
    IN IF \E i \in 1..Len(all) : isJump(all[i]) THEN SelectSeq(all, isJump) ELSE all

\* a continuation status that never obliges to jump
canJumpNever(legalNextMoves) == FALSE

canJump(legalNextMoves) ==
    \E i \in 1..Len(legalNextMoves) : legalNextMoves[i].type = "jump"

StepResult(to, newBoardState, turnState, jumpCheck, plainCheck, isKnight, playerColor) ==
    LET startSquare == turnState.moves[1]
        moved == [turnState EXCEPT !.moves = Append(@, to), !.mustContinue = FALSE]
        newTurnState ==
            IF jumpCheck.valid
            THEN [moved EXCEPT !.capturedSquares = Append(@, jumpCheck.middleSquare)]
            ELSE moved
        Success(ts, next, msg) ==
            [success |-> TRUE, error |-> "", newBoardState |-> newBoardState,
             newTurnState |-> ts, legalNextMoves |-> next, message |-> msg]
    IN IF Includes(oppCastle(playerColor), to)
       THEN Success(newTurnState, <<>>,
                    "Landing in your opponent's castle ends your turn")
       ELSE IF plainCheck.valid
       THEN Success(newTurnState, <<>>, "")
       ELSE TheOne({
              IF to = startSquare
              THEN Success([newTurnState EXCEPT !.mustContinue = TRUE], legalNextMoves,
                           "Cannot complete turn on starting square")
              ELSE IF canJump(legalNextMoves)
              THEN Success([newTurnState EXCEPT !.mustContinue = TRUE], legalNextMoves,
                           "You are obligated to jump")
              ELSE Success(newTurnState, legalNextMoves, "") :
              legalNextMoves \in {LegalNextMoves(to, newBoardState, turnState, jumpCheck,
                                                 isKnight, playerColor)} })

executeStep(to, b, turnState, playerColor) ==
    LET from == turnState.moves[Len(turnState.moves)]
        err == StepError(to, b, turnState, playerColor)
    IN IF err # "" THEN Failure(err)
       ELSE TheOne({
              TheOne({ StepResult(to, newBoardState, turnState, jumpCheck, plainCheck,
                                  At(b, from).type = "knight", playerColor) :
                       newBoardState \in {MovePiece(b, from, to, jumpCheck)} }) :
              jumpCheck \in {isValidJump(from, to, b, playerColor)},
              plainCheck \in {isValidPlainMove(from, to, b)} })

\* plain moves and canters of getInitialMoves for one direction
InitialInDirection(square, d, b, playerColor) ==
    LET oneStep == getAdjacentSquare(square, d)
        twoStep == TwoStep(square, d)
        own == ownCastle(playerColor)
        plain == IF At(b, oneStep) = Null /\ ~Includes(own, oneStep)
                 THEN <<oneStep>> ELSE <<>>
        canter == IF twoStep # NoSquare
                     /\ isValidCanter(square, twoStep, b, playerColor).valid
                     /\ ~Includes(own, twoStep)
                  THEN <<twoStep>> ELSE <<>>
    IN IF oneStep = NoSquare THEN <<>> ELSE plain \o canter

\* initial moves that ignore the obligation to jump
getInitialMovesNoForce(square, b, playerColor) ==
    IF At(b, square) = Null \/ At(b, square).color # playerColor THEN <<>>
    ELSE Flatten([i \in 1..Len(DIRECTIONS) |->
                    InitialInDirection(square, DIRECTIONS[i], b, playerColor)])

getInitialMoves(square, b, playerColor) ==
    LET possibleJumps == checkFirstMovePossibleJumps(b, playerColor)
    IN IF At(b, square) = Null \/ At(b, square).color # playerColor THEN <<>>
       ELSE IF Len(possibleJumps) > 0
       THEN SelectSeq(possibleJumps,
                      LAMBDA j : isValidJump(square, j, b, playerColor).valid)
       ELSE Flatten([i \in 1..Len(DIRECTIONS) |->
                        InitialInDirection(square, DIRECTIONS[i], b, playerColor)])

---------------------------------------------------------------------------
(* Turn notation *)

FileName == <<"A", "B", "C", "D", "E", "F", "G", "H", "I", "J", "K", "L">>
RankName == <<"1", "2", "3", "4", "5", "6", "7", "8", "9", "10", "11", "12",
              "13", "14", "15", "16">>

\* Coordinates.toSquare
SquareName(sq) == FileName[sq[1] + 1] \o RankName[sq[2]]

RECURSIVE Join(_, _)
Join(path, sep) ==
    IF Len(path) = 1 THEN SquareName(path[1])
    ELSE SquareName(path[1]) \o sep \o Join(Tail(path), sep)

\* every turn written with "-"
getTurnNotationPlain(turnState) ==
    IF Len(turnState.moves) < 2 THEN "" ELSE Join(turnState.moves, "-")

getTurnNotation(turnState) ==
    IF Len(turnState.moves) < 2 THEN ""
    ELSE IF Len(turnState.capturedSquares) > 0 THEN Join(turnState.moves, "x")
    ELSE Join(turnState.moves, "-")

---------------------------------------------------------------------------
(* Turn generator (MoveGenerator) *)

MaxTurnDepth == 15

createCompleteTurn(finalBoardState, turnState, isForced) ==
    LET notation == getTurnNotation(turnState)
        startSquare == turnState.moves[1]
        endSquare == turnState.moves[Len(turnState.moves)]
    IN [notation |-> IF notation # "" THEN notation
                     ELSE SquareName(startSquare) \o "-" \o SquareName(endSquare),
        startSquare |-> startSquare,
        endSquare |-> endSquare,
        moves |-> turnState.moves,
        capturedSquares |-> turnState.capturedSquares,
        finalBoardState |-> finalBoardState,
        isForced |-> isForced]

\* no filtering of visited squares
FilterNextMovesNone(legalNextMoves, newTurnState) == legalNextMoves

\* filteredNextMoves: the start square, or a square not visited in this turn
FilterNextMoves(legalNextMoves, newTurnState) ==
    SelectSeq(legalNextMoves,
              LAMBDA m : m.to = newTurnState.moves[1]
                         \/ ~Includes(newTurnState.moves, m.to))

\* every continuation explored after an optional stop, canters included
OptionalContinuationsAll(filteredNextMoves) == filteredNextMoves

\* the continuations explored after an optional stop: jumps only
OptionalContinuations(filteredNextMoves) ==
    SelectSeq(filteredNextMoves, LAMBDA m : m.type = "jump")

RECURSIVE exploreTurnRecursive(_, _, _, _, _, _)
RECURSIVE ExploreEach(_, _, _, _, _, _)

\* exploreTurnRecursive after a successful executeStep returned result
ExploreResult(result, playerColor, isForced, depth) ==
    LET newBoardState == result.newBoardState
        newTurnState == result.newTurnState
        filteredNextMoves == FilterNextMoves(result.legalNextMoves, newTurnState)
        thisTurn == createCompleteTurn(newBoardState, newTurnState, isForced)
    IN IF newTurnState.mustContinue /\ Len(filteredNextMoves) > 0
       THEN ExploreEach(filteredNextMoves, newBoardState, newTurnState,
                        playerColor, isForced, depth + 1)
       ELSE IF Len(filteredNextMoves) > 0
       THEN <<thisTurn>>
            \o ExploreEach(OptionalContinuations(filteredNextMoves), newBoardState,
                           newTurnState, playerColor, isForced, depth + 1)
       ELSE <<thisTurn>>

\* the turns pushed to completeTurns by one call, in push order
exploreTurnRecursive(to, b, turnState, playerColor, isForced, depth) ==
    IF depth > MaxTurnDepth
    THEN IF Len(turnState.moves) > 0
         THEN <<createCompleteTurn(b, turnState, isForced)>>
         ELSE <<>>
    ELSE TheOne({ IF ~result.success THEN <<>>
                  ELSE ExploreResult(result, playerColor, isForced, depth) :
                  result \in {executeStep(to, b, turnState, playerColor)} })

\* the loop "for (const nextMove of moves) exploreTurnRecursive(nextMove.to, ...)"
ExploreEach(nextMoves, b, turnState, playerColor, isForced, depth) ==
    Flatten([i \in 1..Len(nextMoves) |->
               exploreTurnRecursive(nextMoves[i].to, b, turnState, playerColor,
                                    isForced, depth)])

\* the turns explored from one piece, over its initial moves in order
TurnsOfPiece(square, b, playerColor, hasForceJump) ==
    LET initialMoves == getInitialMoves(square, b, playerColor)
    IN Flatten([i \in 1..Len(initialMoves) |->
                   exploreTurnRecursive(initialMoves[i], b,
                                        createEmptyTurnState(square), playerColor,
                                        hasForceJump, 0)])

\* every turn kept, whatever its notation
DeduplicateNone(ts, seenNotations) == ts

\* keeps the first turn of each notation: a turn is dropped when its
\* notation is in seenNotations or is that of a turn before it
Deduplicate(ts, seenNotations) ==
    LET isNew(i) == /\ ts[i].notation \notin seenNotations
                    /\ \A j \in 1..(i - 1) : ts[j].notation # ts[i].notation
        kept == SelectSeq([i \in 1..Len(ts) |-> i], isNew)
    IN [k \in 1..Len(kept) |-> ts[kept[k]]]

\* the array turns of generateAllLegalTurns before deduplication
CollectTurns(b, playerColor) ==
    LET hasForceJump == Len(checkFirstMovePossibleJumps(b, playerColor)) > 0
        ps == PiecesOf(b, playerColor)
    IN Flatten([i \in 1..Len(ps) |->
                  TurnsOfPiece(ps[i], b, playerColor, hasForceJump)])

generateAllLegalTurns(b, playerColor) ==
    Deduplicate(CollectTurns(b, playerColor), {})

\* a test that asks only whether the player has a piece
hasLegalMovesAnyPiece(b, playerColor) == Len(PiecesOf(b, playerColor)) > 0

\* MoveGenerator.hasLegalMoves
hasLegalMoves(b, playerColor) ==
    \E sq \in Range(PiecesOf(b, playerColor)) :
        Len(getInitialMoves(sq, b, playerColor)) > 0

---------------------------------------------------------------------------
(* Positions the generator is applied to *)

MaxPlies == 2

\* Coordinates.parseSquare
Sq(name) == CHOOSE sq \in Range(ALL_SQUARES) : SquareName(sq) = name

\* Layouts of <<square, colour, type>>.  An initial position is any
\* sub-position of a layout, as written or with men and knights exchanged.
Layouts ==
    { \* jump cycles around D5
      { <<"C4", "white", "man">>, <<"C6", "white", "knight">>,
        <<"C5", "black", "man">>, <<"D4", "black", "man">>,
        <<"E5", "black", "knight">>, <<"D5", "black", "man">> },
      \* entering Black's castle
      { <<"F14", "white", "knight">>, <<"E14", "white", "man">>,
        <<"E15", "white", "man">>, <<"F15", "black", "man">>,
        <<"G15", "black", "knight">> },
      \* canter chain, knight's charge
      { <<"E6", "white", "man">>, <<"D7", "white", "knight">>,
        <<"B8", "white", "man">>, <<"C9", "black", "man">>,
        <<"F4", "black", "knight">> },
      \* around White's castle
      { <<"H3", "white", "knight">>, <<"E2", "white", "man">>,
        <<"F3", "white", "man">>, <<"G2", "black", "man">>,
        <<"F2", "black", "knight">> },
      \* the engine test's capture position
      { <<"E6", "white", "knight">>, <<"A4", "white", "man">>,
        <<"F7", "black", "man">>, <<"L13", "black", "man">> } }

OtherType(t) == IF t = "man" THEN "knight" ELSE "man"

Position(placed, exchanged) ==
    [sq \in {Sq(p[1]) : p \in placed} |->
        LET p == CHOOSE q \in placed : Sq(q[1]) = sq
        IN [type |-> IF exchanged THEN OtherType(p[3]) ELSE p[3], color |-> p[2]]]

---------------------------------------------------------------------------
(* Transposition table (TranspositionTable).  The Map is the sequence of its *)
(* entries in insertion order: Map.set of a key already present replaces the *)
(* value where it stands, Map.keys().next() is the key of the first entry.   *)

MaxKeys == 3
MaxStoreDepth == 1
MaxEntries == 2

\* "each entry ~100 bytes"
EntryBytes == 100

ZobristKeys == 0..(MaxKeys - 1)
StoreDepths == 0..MaxStoreDepth

\* zobristKey.toString(), for keys of up to two digits
Digit(n) == <<"0", "1", "2", "3", "4", "5", "6", "7", "8", "9">>[n + 1]
KeyString(zobristKey) ==
    IF zobristKey < 10 THEN Digit(zobristKey)
    ELSE Digit(zobristKey \div 10) \o Digit(zobristKey % 10)

\* score, flag and bestMoveNotation of an entry
Payloads ==
    { [score |-> 40, flag |-> "exact", bestMoveNotation |-> "C4-C5"],
      [score |-> -15, flag |-> "lowerbound", bestMoveNotation |-> "undefined"] }

\* maxSizeMB * 1024 * 1024: room for 0, 1/2, 1, ..., MaxEntries entries
Capacities == {EntryBytes * n : n \in 0..MaxEntries} \cup {EntryBytes \div 2}

NoEntry == [key |-> "undefined"]

\* the index of key in the table, 0 when it is absent
IndexOf(t, key) ==
    IF \E i \in 1..Len(t) : t[i].key = key
    THEN CHOOSE i \in 1..Len(t) : t[i].key = key
    ELSE 0

\* this.table.get(key)
get(t, key) == IF IndexOf(t, key) = 0 THEN NoEntry ELSE t[IndexOf(t, key)]

\* this.table.set(key, entry)
set(t, key, entry) ==
    IF IndexOf(t, key) = 0 THEN Append(t, entry)
    ELSE [t EXCEPT ![IndexOf(t, key)] = entry]

\* a set that moves a key already present to the end
setRefreshing(t, key, entry) ==
    Append(SelectSeq(t, LAMBDA e : e.key # key), entry)

\* a store that overwrites whatever the depth
storeAlways(t, capacity, zobristKey, depth, payload) ==
    LET key == KeyString(zobristKey)
        entry == [key |-> key, zobristKey |-> zobristKey, depth |-> depth,
                  score |-> payload.score, flag |-> payload.flag,
                  bestMoveNotation |-> payload.bestMoveNotation]
        stored == set(t, key, entry)
    IN IF Len(stored) * EntryBytes > capacity THEN Tail(stored) ELSE stored

\* a store whose overwrite counts as a new insertion
storeRefreshing(t, capacity, zobristKey, depth, payload) ==
    LET key == KeyString(zobristKey)
        existing == get(t, key)
        entry == [key |-> key, zobristKey |-> zobristKey, depth |-> depth,
                  score |-> payload.score, flag |-> payload.flag,
                  bestMoveNotation |-> payload.bestMoveNotation]
        stored == setRefreshing(t, key, entry)
    IN IF existing # NoEntry /\ existing.depth > depth THEN t
       ELSE IF Len(stored) * EntryBytes > capacity THEN Tail(stored)
       ELSE stored

\* TranspositionTable.store; capacity is maxSize * 100, so that
\* size > maxSize is size * 100 > capacity
store(t, capacity, zobristKey, depth, payload) ==
    LET key == KeyString(zobristKey)
        existing == get(t, key)
        entry == [key |-> key, zobristKey |-> zobristKey, depth |-> depth,
                  score |-> payload.score, flag |-> payload.flag,
                  bestMoveNotation |-> payload.bestMoveNotation]
        stored == set(t, key, entry)
    IN IF existing # NoEntry /\ existing.depth > depth THEN t
       ELSE IF Len(stored) * EntryBytes > capacity THEN Tail(stored)
       ELSE stored

\* TranspositionTable.probe
probe(t, zobristKey) == get(t, KeyString(zobristKey))

\* TranspositionTable.clear
clear(t) == <<>>

\* the keys present in the table
KeysOf(t) == {t[i].key : i \in 1..Len(t)}

---------------------------------------------------------------------------
(* Iterative-deepening driver (Search) *)

CHECKMATE_SCORE == 100000
Infinity == 1000000000

MaxSearchDepth == 2
MaxMoves == 2
MaxRootMoves == 4
MaxRootPieces == 2

\* null, as a CompleteTurn
NoTurn ==
    [notation |-> "", startSquare |-> NoSquare, endSquare |-> NoSquare,
     moves |-> <<>>, capturedSquares |-> <<>>, finalBoardState |-> <<>>,
     isForced |-> FALSE]

\* null, as a SearchResult
NoResult == [bestMove |-> NoTurn, score |-> 0, depth |-> -1]

\* a comparator that looks at the capture count only
CompareTurnsByCaptures(a, b, playerColor) ==
    (Len(b.capturedSquares) - Len(a.capturedSquares)) * 1000

\* the comparator of orderMoves: negative when a sorts before b
CompareTurns(a, b, playerColor) ==
    LET opp == oppCastle(playerColor)
        aCaps == Len(a.capturedSquares)
        bCaps == Len(b.capturedSquares)
        aInCastle == IF Includes(opp, a.endSquare) THEN 100 ELSE 0
        bInCastle == IF Includes(opp, b.endSquare) THEN 100 ELSE 0
        aProgress == IF playerColor = "white"
                     THEN a.endSquare[2] - a.startSquare[2]
                     ELSE a.startSquare[2] - a.endSquare[2]
        bProgress == IF playerColor = "white"
                     THEN b.endSquare[2] - b.startSquare[2]
                     ELSE b.startSquare[2] - b.endSquare[2]
    IN IF aCaps # bCaps THEN (bCaps - aCaps) * 1000
       ELSE IF aInCastle # bInCastle THEN bInCastle - aInCastle
       ELSE bProgress - aProgress

\* Array.prototype.sort, given the comparator's value cmp[i][j] for the
\* elements at i and j: the index that comes k-th.  The sort is stable, so an
\* element comes after those that sort before it and after its equals to its
\* left.
sortOrder(cmp) ==
    LET n == Len(cmp)
        pos(i) == 1 + Cardinality({j \in 1..n :
                         \/ cmp[j][i] < 0
                         \/ cmp[j][i] = 0 /\ j < i})
    IN [k \in 1..n |-> CHOOSE i \in 1..n : pos(i) = k]

orderMoves(ts, playerColor) ==
    LET n == Len(ts)
        order == sortOrder([i \in 1..n |->
                              [j \in 1..n |-> CompareTurns(ts[i], ts[j], playerColor)]])
    IN [k \in 1..n |-> ts[order[k]]]

\* the values -alphaBeta(...) takes at the root: ordinary evaluations and a
\* forced win.  The tree below the root is not expanded: any of these values
\* may come back for any move.
Scores == {-15, 40, CHECKMATE_SCORE - 1}

\* the values -alphaBeta(...) takes when the deadline is seen below the root:
\* -0 from the entry check, or -bestScore of a move loop left before its
\* first move was scored
AbortScores == {0, Infinity}

\* constructor(ttSizeMB: number = 128)
DefaultTableMB == 128

\* computeHash(gameState, currentPlayer) of the position searched
RootKey == 0

\* shouldAbort(): true once aborted, or when the time limit is reached
shouldAbort == aborted \/ expired

\* "if (!this.aborted)": the iteration is recorded
iterationCompletedAlways(isAborted) == TRUE

iterationCompleted(isAborted) == ~isAborted

\* a default result without a move
firstOrNullNever(allMoves) == NoTurn

\* allMoves[0] || null
firstOrNull(allMoves) == IF Len(allMoves) > 0 THEN allMoves[1] ELSE NoTurn

Min(a, b) == IF a < b THEN a ELSE b

\* a sort without the slice
topThreeUnsliced(top) ==
    LET n == Len(top)
        order == sortOrder([i \in 1..n |->
                              [j \in 1..n |-> top[j].score - top[i].score]])
    IN [k \in 1..n |-> top[order[k]]]

\* topMoves.sort((a, b) => b.score - a.score).slice(0, 3)
topThree(top) ==
    LET n == Len(top)
        order == sortOrder([i \in 1..n |->
                              [j \in 1..n |-> top[j].score - top[i].score]])
    IN [k \in 1..Min(3, n) |-> top[order[k]]]

\* no call of evaluate or checkWinCondition was made
EvalIdle ==
    /\ evaluation = 0
    /\ winFor = "none"
    /\ winner = "null"

\* no TranspositionTable is in use
TableIdle ==
    /\ table = <<>>
    /\ maxBytes = 0
    /\ lastOp = [op |-> "none"]

\* no keys drawn, no alphaBeta node entered, no step executed
ExtraIdle ==
    /\ zobrist = [made |-> FALSE]
    /\ node = [pc |-> "none"]
    /\ call = [name |-> "none"]
    /\ client = [screen |-> "none"]

\* undefined, as an EngineAnalysis
NoAnalysis ==
    [bestMove |-> NoTurn, evaluation |-> 0, depth |-> -1, isMate |-> FALSE,
     mateInMoves |-> -1]

SearchIdle ==
    /\ pc = "idle"
    /\ maxDepth = 0
    /\ expired = FALSE
    /\ aborted = FALSE
    /\ searchDepth = 0
    /\ bestResult = NoResult
    /\ orderedMoves = <<>>
    /\ idx = 0
    /\ bestMove = NoTurn
    /\ bestScore = -Infinity
    /\ topMoves = <<>>
    /\ rootResult = NoResult
    /\ ret = NoResult
    /\ completed = <<>>
    /\ discarded = NoResult
    /\ observedAt = 0

Init ==
    /\ \E layout \in Layouts, exchanged \in BOOLEAN :
         \E placed \in SUBSET layout :
            board = Position(placed, exchanged)
    /\ side \in Colors
    /\ phase = "ready"
    /\ turns = <<>>
    /\ plies = 0
    /\ SearchIdle
    /\ EvalIdle
    /\ TableIdle
    /\ analysis = NoAnalysis
    /\ ExtraIdle

\* MoveGenerator.generateAllLegalTurns(gameState, side)
Generate ==
    /\ phase = "ready"
    /\ turns' = generateAllLegalTurns(board, side)
    /\ phase' = "generated"
    /\ UNCHANGED <<board, side, plies>>
    /\ UNCHANGED <<svars, evars, tvars, analysis, xvars>>

\* a generated turn is applied: board_state becomes its finalBoardState and the
\* other colour is to move
ApplyTurn ==
    /\ phase = "generated"
    /\ plies < MaxPlies
    /\ \E i \in 1..Len(turns) :
          /\ board' = turns[i].finalBoardState
          /\ side' = Opponent(side)
    /\ phase' = "ready"
    /\ turns' = <<>>
    /\ plies' = plies + 1
    /\ UNCHANGED <<svars, evars, tvars, analysis, xvars>>

Next == Generate \/ ApplyTurn

Spec == Init /\ [][Next]_vars

\* searchIterativeDeepening is called on a sub-position of a layout as written
\* that has at most MaxMoves legal turns (kept in turns), with maxDepth in
\* 0..MaxSearchDepth; the time limit may be reached before the first check
\* (timeLimitMs = 0)
InitSearch ==
    /\ \E layout \in Layouts :
         \E placed \in SUBSET layout :
            board = Position(placed, FALSE)
    /\ side \in Colors
    /\ phase = "generated"
    /\ turns = generateAllLegalTurns(board, side)
    /\ Len(turns) <= MaxMoves
    /\ plies = 0
    /\ pc = "start"
    /\ maxDepth \in 0..MaxSearchDepth
    /\ expired \in BOOLEAN
    /\ aborted = FALSE
    /\ searchDepth = 0
    /\ bestResult = NoResult
    /\ orderedMoves = <<>>
    /\ idx = 0
    /\ bestMove = NoTurn
    /\ bestScore = -Infinity
    /\ topMoves = <<>>
    /\ rootResult = NoResult
    /\ ret = NoResult
    /\ completed = <<>>
    /\ discarded = NoResult
    /\ observedAt = 0
    /\ EvalIdle
    /\ table = <<>>
    /\ maxBytes = DefaultTableMB * 1024 * 1024
    /\ lastOp = [op |-> "none"]
    /\ analysis = NoAnalysis
    /\ ExtraIdle

\* lines 58-66: aborted = false, bestResult = null, depth = 1
StartSearch ==
    /\ pc = "start"
    /\ aborted' = FALSE
    /\ bestResult' = NoResult
    /\ searchDepth' = 1
    /\ pc' = "loop"
    /\ UNCHANGED <<maxDepth, expired, orderedMoves, idx, bestMove, bestScore,
                   topMoves, rootResult, ret, completed, discarded, observedAt>>
    /\ UNCHANGED <<gvars, evars, tvars, analysis, xvars>>

\* the clock reaches the time limit
Tick ==
    /\ pc \in {"loop", "root", "rootEnd", "record", "finish"}
    /\ ~expired
    /\ expired' = TRUE
    /\ UNCHANGED <<pc, maxDepth, aborted, searchDepth, bestResult, orderedMoves, idx,
                   bestMove, bestScore, topMoves, rootResult, ret, completed,
                   discarded, observedAt>>
    /\ UNCHANGED <<gvars, evars, tvars, analysis, xvars>>

\* the iteration in which the deadline is first seen
Observe == IF aborted THEN observedAt ELSE searchDepth

\* a lost position scored as a draw
noMovesResultDraw(depth) == [bestMove |-> NoTurn, score |-> 0, depth |-> depth]

\* a lost position reported at depth 0
noMovesResultDepthZero(depth) ==
    [bestMove |-> NoTurn, score |-> -CHECKMATE_SCORE, depth |-> 0]

\* searchRoot, lines 117-126: no legal moves
noMovesResult(depth) ==
    [bestMove |-> NoTurn, score |-> -CHECKMATE_SCORE, depth |-> depth]

\* loop head (66-67) and the start of searchRoot (112-138)
LoopTop ==
    /\ pc = "loop"
    /\ IF searchDepth > maxDepth
       THEN /\ pc' = "finish"
            /\ UNCHANGED <<aborted, observedAt, orderedMoves, idx, bestMove,
                           bestScore, topMoves, rootResult>>
       ELSE IF shouldAbort
       THEN /\ aborted' = TRUE
            /\ observedAt' = Observe
            /\ pc' = "finish"
            /\ UNCHANGED <<orderedMoves, idx, bestMove, bestScore, topMoves, rootResult>>
       ELSE LET allMoves == generateAllLegalTurns(board, side)
            IN IF Len(allMoves) = 0
               THEN /\ rootResult' = noMovesResult(searchDepth)
                    /\ pc' = "record"
                    /\ UNCHANGED <<aborted, observedAt, orderedMoves, idx, bestMove,
                                   bestScore, topMoves>>
               ELSE /\ orderedMoves' = orderMoves(allMoves, side)
                    /\ idx' = 1
                    /\ bestMove' = orderedMoves'[1]
                    /\ bestScore' = -Infinity
                    /\ topMoves' = <<>>
                    /\ pc' = "root"
                    /\ UNCHANGED <<aborted, observedAt, rootResult>>
    /\ UNCHANGED <<maxDepth, expired, searchDepth, bestResult, ret, completed, discarded>>
    /\ UNCHANGED <<gvars, evars, tvars, analysis, xvars>>

\* one pass of the move loop of searchRoot (140-168).  The deadline may be
\* seen at the loop's own check, or by a check below the root while the score
\* of the move is computed.
RootMove ==
    /\ pc = "root"
    /\ idx <= Len(orderedMoves)
    /\ IF shouldAbort
       THEN /\ aborted' = TRUE
            /\ observedAt' = Observe
            /\ pc' = "rootEnd"
            /\ UNCHANGED <<expired, idx, bestMove, bestScore, topMoves>>
       ELSE \E seenBelow \in BOOLEAN :
              \E score \in (IF seenBelow THEN AbortScores ELSE Scores) :
                 /\ aborted' = seenBelow
                 /\ expired' = seenBelow
                 /\ observedAt' = IF seenBelow THEN searchDepth ELSE observedAt
                 /\ topMoves' = Append(topMoves,
                                       [move |-> orderedMoves[idx], score |-> score])
                 /\ bestScore' = IF score > bestScore THEN score ELSE bestScore
                 /\ bestMove' = IF score > bestScore THEN orderedMoves[idx]
                                ELSE bestMove
                 /\ idx' = idx + 1
                 /\ pc' = "root"
    /\ UNCHANGED <<maxDepth, searchDepth, bestResult, orderedMoves, rootResult, ret,
                   completed, discarded>>
    /\ UNCHANGED <<gvars, evars, tvars, analysis, xvars>>

\* the end of searchRoot (170-201): with Math.random() < 0.2 and more than one
\* scored move, one of the top three replaces the best move; the result is
\* stored in the table as "exact"
RootFinish ==
    /\ \/ pc = "rootEnd"
       \/ pc = "root" /\ idx > Len(orderedMoves)
    /\ \E randomPick \in 0..(IF Len(topMoves) > 1 THEN Len(topThree(topMoves)) ELSE 0) :
          rootResult' = IF randomPick = 0
                    THEN [bestMove |-> bestMove, score |-> bestScore,
                          depth |-> searchDepth]
                    ELSE [bestMove |-> topThree(topMoves)[randomPick].move,
                          score |-> topThree(topMoves)[randomPick].score,
                          depth |-> searchDepth]
    /\ table' = store(table, maxBytes, RootKey, searchDepth,
                      [score |-> rootResult'.score, flag |-> "exact",
                       bestMoveNotation |-> rootResult'.bestMove.notation])
    /\ pc' = "record"
    /\ UNCHANGED <<maxDepth, expired, aborted, searchDepth, bestResult, orderedMoves, idx,
                   bestMove, bestScore, topMoves, ret, completed, discarded,
                   observedAt>>
    /\ UNCHANGED <<gvars, evars, maxBytes, lastOp, analysis, xvars>>

\* a loop that runs the same depth again
nextDepthRepeating(depth) == depth

\* line 66: depth++
nextDepth(depth) == depth + 1

\* a loop that never stops on a mate score
isForcedMateNever(result) == FALSE

\* lines 79-84: bestResult && Math.abs(bestResult.score) > CHECKMATE_SCORE / 2
isForcedMate(result) ==
    result # NoResult /\ Abs(result.score) * 2 > CHECKMATE_SCORE

\* lines 71-84: the result of a completed iteration is recorded; a forced mate
\* ends the loop
Record ==
    /\ pc = "record"
    /\ bestResult' = IF iterationCompleted(aborted) THEN rootResult ELSE bestResult
    /\ completed' = IF aborted THEN completed ELSE Append(completed, rootResult)
    /\ discarded' = IF aborted THEN rootResult ELSE discarded
    /\ IF isForcedMate(bestResult')
       THEN pc' = "finish" /\ searchDepth' = searchDepth
       ELSE pc' = "loop" /\ searchDepth' = nextDepth(searchDepth)
    /\ UNCHANGED <<maxDepth, expired, aborted, orderedMoves, idx, bestMove,
                   bestScore, topMoves, rootResult, ret, observedAt>>
    /\ UNCHANGED <<gvars, evars, tvars, analysis, xvars>>

\* lines 86-101: the default result when nothing was recorded
Finish ==
    /\ pc = "finish"
    /\ ret' = IF bestResult = NoResult
              THEN [bestMove |-> firstOrNull(generateAllLegalTurns(board, side)),
                    score |-> 0, depth |-> 0]
              ELSE bestResult
    /\ pc' = "done"
    /\ UNCHANGED <<maxDepth, expired, aborted, searchDepth, bestResult, orderedMoves, idx,
                   bestMove, bestScore, topMoves, rootResult, completed, discarded,
                   observedAt>>
    /\ UNCHANGED <<gvars, evars, tvars, analysis, xvars>>

\* the score handed on unchanged, relative to the side to move
formatAnalysisMoverRelative(result, currentPlayer) ==
    LET isMate == Abs(result.score) * 2 > CHECKMATE_SCORE
    IN [bestMove |-> result.bestMove,
        evaluation |-> result.score,
        depth |-> result.depth,
        isMate |-> isMate,
        mateInMoves |-> IF isMate
                        THEN (CHECKMATE_SCORE - Abs(result.score) + 1) \div 2
                        ELSE -1]

\* CamelotEngine.formatAnalysis; mateInMoves undefined is -1
formatAnalysis(result, currentPlayer) ==
    LET score == IF currentPlayer = "white" THEN result.score ELSE -result.score
        isMate == Abs(result.score) * 2 > CHECKMATE_SCORE
    IN [bestMove |-> result.bestMove,
        evaluation |-> score,
        depth |-> result.depth,
        isMate |-> isMate,
        mateInMoves |-> IF isMate
                        THEN (CHECKMATE_SCORE - Abs(result.score) + 1) \div 2
                        ELSE -1]

\* CamelotEngine.getBestMove / analyze: the search result is formatted
FormatAnalysis ==
    /\ pc = "done"
    /\ analysis' = formatAnalysis(ret, side)
    /\ pc' = "formatted"
    /\ UNCHANGED <<maxDepth, expired, aborted, searchDepth, bestResult, orderedMoves, idx,
                   bestMove, bestScore, topMoves, rootResult, ret, completed, discarded,
                   observedAt>>
    /\ UNCHANGED <<gvars, evars, tvars, xvars>>

\* searchRoot on its own: one iteration on a position with more root turns
\* than the top three
InitRoot ==
    /\ \E layout \in Layouts :
         \E placed \in SUBSET layout :
            /\ Cardinality(placed) <= MaxRootPieces
            /\ board = Position(placed, FALSE)
    /\ side \in Colors
    /\ phase = "generated"
    /\ turns = generateAllLegalTurns(board, side)
    /\ Len(turns) > 1
    /\ Len(turns) <= MaxRootMoves
    /\ plies = 0
    /\ pc = "start"
    /\ maxDepth = 1
    /\ expired = FALSE
    /\ aborted = FALSE
    /\ searchDepth = 0
    /\ bestResult = NoResult
    /\ orderedMoves = <<>>
    /\ idx = 0
    /\ bestMove = NoTurn
    /\ bestScore = -Infinity
    /\ topMoves = <<>>
    /\ rootResult = NoResult
    /\ ret = NoResult
    /\ completed = <<>>
    /\ discarded = NoResult
    /\ observedAt = 0
    /\ EvalIdle
    /\ table = <<>>
    /\ maxBytes = DefaultTableMB * 1024 * 1024
    /\ lastOp = [op |-> "none"]
    /\ analysis = NoAnalysis
    /\ ExtraIdle

NextSearch ==
    \/ StartSearch \/ Tick \/ LoopTop \/ RootMove \/ RootFinish \/ Record \/ Finish
    \/ FormatAnalysis

SpecSearch == InitSearch /\ [][NextSearch]_vars

SpecRoot == InitRoot /\ [][NextSearch]_vars

---------------------------------------------------------------------------
(* Logic.executeStep as a caller sees it: the objects it is handed, the      *)
(* objects it returns, and the steps of one turn made through it             *)

MaxSteps == 2

\* the squares a caller may name as the target of a step: all within two
\* files and two ranks of the piece
StepTargets(from) ==
    {sq \in Range(ALL_SQUARES) :
        sq # from /\ Abs(sq[1] - from[1]) <= 2 /\ Abs(sq[2] - from[2]) <= 2}

\* a "copy" that is the object itself
spreadAlias(ref, fresh) == ref

\* { ...obj }: a new object; the reference the copy is known by
spread(ref, fresh) == fresh

\* the objects a call of executeStep can reach, before the call: its two
\* arguments, and the places of the two objects it may allocate
Heap(b, turnState) ==
    [boardState |-> b, turnState |-> turnState,
     newBoardState |-> <<>>, newTurnState |-> createEmptyTurnState(NoSquare)]

\* the same objects after the call: every write of lines 166-264 goes to
\* newBoardState or newTurnState
executeStepHeap(heap, to, playerColor) ==
    LET result == executeStep(to, heap.boardState, heap.turnState, playerColor)
        nb == spread("boardState", "newBoardState")
        nt == spread("turnState", "newTurnState")
    IN IF ~result.success THEN heap
       ELSE [[heap EXCEPT ![nb] = result.newBoardState]
                   EXCEPT ![nt] = result.newTurnState]

InitStep ==
    /\ \E layout \in Layouts, exchanged \in BOOLEAN :
         \E placed \in SUBSET layout :
            board = Position(placed, exchanged)
    /\ side \in Colors
    /\ phase = "ready"
    /\ turns = <<>>
    /\ plies = 0
    /\ SearchIdle
    /\ EvalIdle
    /\ TableIdle
    /\ analysis = NoAnalysis
    /\ zobrist = [made |-> FALSE]
    /\ client = [screen |-> "none"]
    /\ node = [pc |-> "none"]
    /\ call = [name |-> "none"]

\* Logic.createEmptyTurnState(startSquare), for the square of any piece
BeginTurn ==
    /\ phase = "ready"
    /\ \E startSquare \in DOMAIN board :
          call' = [name |-> "createEmptyTurnState",
                   turnState |-> createEmptyTurnState(startSquare)]
    /\ phase' = "turn"
    /\ UNCHANGED <<board, side, turns, plies, zobrist, client, node>>
    /\ UNCHANGED <<svars, evars, tvars, analysis>>

\* Logic.executeStep(to, boardState, turnState, playerColor); the caller goes
\* on with the new states when the step succeeded and gives up when it failed
Step ==
    /\ phase = "turn"
    /\ Len(call.turnState.moves) <= MaxSteps
    /\ \E to \in StepTargets(call.turnState.moves[Len(call.turnState.moves)]) :
          LET before == Heap(board, call.turnState)
              result == executeStep(to, board, call.turnState, side)
          IN /\ call' = [name |-> "executeStep", to |-> to,
                         before |-> before,
                         after |-> executeStepHeap(before, to, side),
                         result |-> result,
                         turnState |-> IF result.success THEN result.newTurnState
                                       ELSE call.turnState]
             /\ board' = IF result.success THEN result.newBoardState ELSE board
             /\ phase' = IF result.success THEN "turn" ELSE "rejected"
    /\ UNCHANGED <<side, turns, plies, zobrist, client, node>>
    /\ UNCHANGED <<svars, evars, tvars, analysis>>

NextStep == BeginTurn \/ Step

SpecStep == InitStep /\ [][NextStep]_vars

---------------------------------------------------------------------------
(* Move ordering on its own: the turns of a position are generated and sorted *)

\* MoveGenerator.orderMoves(MoveGenerator.generateAllLegalTurns(gameState, side), side)
Order ==
    /\ phase = "ready"
    /\ turns' = generateAllLegalTurns(board, side)
    /\ orderedMoves' = orderMoves(turns', side)
    /\ phase' = "ordered"
    /\ UNCHANGED <<board, side, plies>>
    /\ UNCHANGED <<pc, maxDepth, expired, aborted, searchDepth, bestResult, idx,
                   bestMove, bestScore, topMoves, rootResult, ret, completed,
                   discarded, observedAt>>
    /\ UNCHANGED <<evars, tvars, analysis, xvars>>

NextOrder == Order

SpecOrder == Init /\ [][NextOrder]_vars

---------------------------------------------------------------------------
(* Win detection (Logic.checkWinCondition) and static evaluation (Evaluator) *)

\* a win by capture or stalemate granted whatever the winner's piece count
checkWinConditionAnyCount(b, playerColor) ==
    LET opponentColor == Opponent(playerColor)
        opponentCastle == oppCastle(playerColor)
        piecesInCastle ==
            Cardinality({i \in 1..Len(opponentCastle) :
                            At(b, opponentCastle[i]).color = playerColor})
    IN IF piecesInCastle >= 2 THEN "castle_occupation"
       ELSE IF Len(PiecesOf(b, opponentColor)) = 0 THEN "capture_all"
       ELSE IF ~hasLegalMoves(b, opponentColor) THEN "stalemate"
       ELSE "null"

checkWinCondition(b, playerColor) ==
    LET opponentColor == Opponent(playerColor)
        opponentCastle == oppCastle(playerColor)
        piecesInCastle ==
            Cardinality({i \in 1..Len(opponentCastle) :
                            At(b, opponentCastle[i]).color = playerColor})
        playerPieces == Len(PiecesOf(b, playerColor))
        opponentPieces == Len(PiecesOf(b, opponentColor))
        opponentHasMoves ==
            \E i \in 1..Len(PiecesOf(b, opponentColor)) :
                Len(getInitialMoves(PiecesOf(b, opponentColor)[i], b, opponentColor)) > 0
    IN IF piecesInCastle >= 2 THEN "castle_occupation"
       ELSE IF opponentPieces = 0 /\ playerPieces >= 2 THEN "capture_all"
       ELSE IF playerPieces >= 2 /\ ~opponentHasMoves THEN "stalemate"
       ELSE "null"

\* Scores of the evaluator are kept in tenths of a point: its terms are
\* multiples of 0.1 (1.5, 26.4, 13.2, 6, half a MOBILITY_BONUS).
Unit == 10

MAN_VALUE == 100
KNIGHT_VALUE == 150
CASTLE_CONTROL_BONUS == 80
CASTLE_PROXIMITY_BONUS == 40
CENTER_CONTROL_BONUS == 3
MOBILITY_BONUS == 3
FORWARD_PROGRESS_BONUS == 12

RECURSIVE Sum(_)
Sum(xs) == IF xs = <<>> THEN 0 ELSE Head(xs) + Sum(Tail(xs))

\* the occupied squares, in the order of ALL_SQUARES
OccupiedSquares(b) == SelectSeq(ALL_SQUARES, LAMBDA sq : At(b, sq) # Null)

evaluateMaterial(b) ==
    LET ps == OccupiedSquares(b)
        value(sq) == IF b[sq].type = "knight" THEN KNIGHT_VALUE ELSE MAN_VALUE
    IN Sum([i \in 1..Len(ps) |->
               IF b[ps[i]].color = "white" THEN value(ps[i]) * Unit
               ELSE -(value(ps[i]) * Unit)])

getCenterControlBonus(sq) ==
    LET centerFiles == {4, 5, 6, 7}
        fileDistance == CHOOSE d \in {Abs(sq[1] - cf) : cf \in centerFiles} :
                           \A cf \in centerFiles : d <= Abs(sq[1] - cf)
    IN IF fileDistance = 0 THEN CENTER_CONTROL_BONUS * Unit
       ELSE IF fileDistance = 1 THEN (CENTER_CONTROL_BONUS * Unit) \div 2
       ELSE 0

getForwardProgressBonus(sq, color) ==
    IF color = "white" THEN (sq[2] - 6) * FORWARD_PROGRESS_BONUS * Unit
    ELSE (11 - sq[2]) * FORWARD_PROGRESS_BONUS * Unit

getCastleProximityBonus(sq, color) ==
    LET enemyCastle == IF color = "white" THEN BLACK_CASTLE ELSE WHITE_CASTLE
        distance(c) == Abs(sq[1] - c[1]) + Abs(sq[2] - c[2])
        minDistance == CHOOSE d \in {distance(enemyCastle[i]) : i \in 1..Len(enemyCastle)} :
                          \A i \in 1..Len(enemyCastle) : d <= distance(enemyCastle[i])
    IN IF minDistance <= 2 THEN CASTLE_PROXIMITY_BONUS * Unit
       ELSE IF minDistance <= 4 THEN (CASTLE_PROXIMITY_BONUS * Unit * 66) \div 100
       ELSE IF minDistance <= 6 THEN (CASTLE_PROXIMITY_BONUS * Unit * 33) \div 100
       ELSE IF minDistance <= 8 THEN (CASTLE_PROXIMITY_BONUS * Unit * 15) \div 100
       ELSE 0

evaluatePosition(b) ==
    LET ps == OccupiedSquares(b)
        multiplier(sq) == IF b[sq].color = "white" THEN 1 ELSE -1
    IN Sum([i \in 1..Len(ps) |->
               (getCenterControlBonus(ps[i])
                + getForwardProgressBonus(ps[i], b[ps[i]].color)
                + getCastleProximityBonus(ps[i], b[ps[i]].color)) * multiplier(ps[i])])

evaluateCastleControl(b) ==
    Sum([i \in 1..Len(BLACK_CASTLE) |->
            IF At(b, BLACK_CASTLE[i]).color = "white"
            THEN CASTLE_CONTROL_BONUS * Unit ELSE 0])
    - Sum([i \in 1..Len(WHITE_CASTLE) |->
              IF At(b, WHITE_CASTLE[i]).color = "black"
              THEN CASTLE_CONTROL_BONUS * Unit ELSE 0])

\* moveCount * MOBILITY_BONUS, in points
evaluateMobility(b, playerColor) ==
    LET ps == PiecesOf(b, playerColor)
    IN Sum([i \in 1..Len(ps) |-> Len(getInitialMoves(ps[i], b, playerColor))])
       * MOBILITY_BONUS

\* Math.random() * 20 - 10 lies in [-10, 10): its least value, zero, and its
\* greatest value in tenths
Jitters == {-(10 * Unit), 0, 10 * Unit - 1}

\* the score of a position that is not won, with the random term jitter
staticScore(b, jitter) ==
    evaluateMaterial(b) + evaluatePosition(b) + evaluateCastleControl(b)
    + (evaluateMobility(b, "white") * Unit) \div 2
    - (evaluateMobility(b, "black") * Unit) \div 2
    + jitter

\* an evaluation that never looks for a win
evaluateStaticOnly(b, currentPlayer, jitter) == staticScore(b, jitter)

evaluate(b, currentPlayer, jitter) ==
    IF checkWinCondition(b, "white") # "null"
    THEN IF currentPlayer = "white" THEN CHECKMATE_SCORE * Unit
         ELSE -(CHECKMATE_SCORE * Unit)
    ELSE IF checkWinCondition(b, "black") # "null"
    THEN IF currentPlayer = "black" THEN CHECKMATE_SCORE * Unit
         ELSE -(CHECKMATE_SCORE * Unit)
    ELSE staticScore(b, jitter)

\* Layouts, and two more: a Black piece shut in its castle, and both castles
\* held by the enemy
EvalLayouts ==
    Layouts \cup
    { { <<"F16", "black", "man">>, <<"E15", "white", "man">>,
        <<"F15", "white", "knight">>, <<"G15", "white", "man">>,
        <<"D14", "white", "man">>, <<"F14", "white", "man">>,
        <<"H14", "white", "man">> },
      { <<"F16", "white", "knight">>, <<"G16", "white", "man">>,
        <<"F1", "black", "man">>, <<"G1", "black", "man">>,
        <<"E8", "white", "man">> } }

InitEval ==
    /\ \E layout \in EvalLayouts, exchanged \in BOOLEAN :
         \E placed \in SUBSET layout :
            board = Position(placed, exchanged)
    /\ side \in Colors
    /\ phase = "ready"
    /\ turns = <<>>
    /\ plies = 0
    /\ SearchIdle
    /\ EvalIdle
    /\ TableIdle
    /\ analysis = NoAnalysis
    /\ ExtraIdle

\* Evaluator.evaluate(gameState, side)
Evaluate ==
    /\ phase = "ready"
    /\ \E jitter \in Jitters : evaluation' = evaluate(board, side, jitter)
    /\ phase' = "evaluated"
    /\ UNCHANGED <<board, side, turns, plies, winFor, winner>>
    /\ UNCHANGED <<svars, tvars, analysis, xvars>>

\* Logic.checkWinCondition(board_state, playerColor)
CheckWin ==
    /\ phase = "ready"
    /\ \E playerColor \in Colors :
          /\ winFor' = playerColor
          /\ winner' = checkWinCondition(board, playerColor)
    /\ phase' = "judged"
    /\ UNCHANGED <<board, side, turns, plies, evaluation>>
    /\ UNCHANGED <<svars, tvars, analysis, xvars>>

\* the score of a leaf for the side to move: quiescence's stand-pat (339-340)
\* and the leaf of alphaBeta (251-252)
standPatScore(b, currentPlayer, jitter) ==
    LET standPat == evaluate(b, currentPlayer, jitter)
    IN IF currentPlayer = "white" THEN standPat ELSE -standPat

\* Search.quiescence, lines 338-340
StandPat ==
    /\ phase = "ready"
    /\ \E jitter \in Jitters : evaluation' = standPatScore(board, side, jitter)
    /\ phase' = "leaf"
    /\ UNCHANGED <<board, side, turns, plies, winFor, winner>>
    /\ UNCHANGED <<svars, tvars, analysis, xvars>>

NextEval == Evaluate \/ CheckWin \/ StandPat

SpecEval == InitEval /\ [][NextEval]_vars

---------------------------------------------------------------------------
(* The three tests for "the side to move has a move": the generator,          *)
(* hasLegalMoves, and the stalemate test of checkWinCondition                 *)

\* a White man shut in on F1 by Black pieces with a piece behind each
BlockedLayout ==
    { <<"F1", "white", "man">>, <<"E2", "black", "man">>, <<"F2", "black", "man">>,
      <<"G2", "black", "man">>, <<"D3", "black", "man">>, <<"F3", "black", "knight">>,
      <<"H3", "black", "man">> }

InitMoves ==
    /\ \E layout \in Layouts \cup {BlockedLayout} :
         \E placed \in SUBSET layout :
            board = Position(placed, FALSE)
    /\ side \in Colors
    /\ phase = "ready"
    /\ turns = <<>>
    /\ plies = 0
    /\ SearchIdle
    /\ EvalIdle
    /\ TableIdle
    /\ analysis = NoAnalysis
    /\ ExtraIdle

\* the position is given to generateAllLegalTurns and to hasLegalMoves for the
\* side to move, and to checkWinCondition for the other side
CompareMoves ==
    /\ phase = "ready"
    /\ turns' = generateAllLegalTurns(board, side)
    /\ call' = [name |-> "hasLegalMoves", playerColor |-> side,
                result |-> hasLegalMoves(board, side)]
    /\ winFor' = Opponent(side)
    /\ winner' = checkWinCondition(board, Opponent(side))
    /\ phase' = "compared"
    /\ UNCHANGED <<board, side, plies, evaluation, zobrist, client, node>>
    /\ UNCHANGED <<svars, tvars, analysis>>

NextMoves == CompareMoves

SpecMoves == InitMoves /\ [][NextMoves]_vars

---------------------------------------------------------------------------
(* The transposition table on its own: stores, probes and clears in any order *)

\* new TranspositionTable(maxSizeMB).  lastOp.order lists the keys present by
\* the time each was first inserted since it was last absent.
InitTT ==
    /\ board = <<>>
    /\ side = "white"
    /\ phase = "table"
    /\ turns = <<>>
    /\ plies = 0
    /\ SearchIdle
    /\ EvalIdle
    /\ analysis = NoAnalysis
    /\ ExtraIdle
    /\ table = <<>>
    /\ maxBytes \in Capacities
    /\ lastOp = [op |-> "none", order |-> <<>>]

Store ==
    /\ phase = "table"
    /\ \E zobristKey \in ZobristKeys, depth \in StoreDepths, payload \in Payloads :
          LET key == KeyString(zobristKey)
              inserted == IF key \in Range(lastOp.order) THEN lastOp.order
                          ELSE Append(lastOp.order, key)
          IN /\ table' = store(table, maxBytes, zobristKey, depth, payload)
             /\ lastOp' = [op |-> "store", zobristKey |-> zobristKey, depth |-> depth,
                           payload |-> payload, before |-> table,
                           inserted |-> inserted,
                           order |-> SelectSeq(inserted,
                                               LAMBDA k : k \in KeysOf(table'))]
    /\ UNCHANGED <<maxBytes, gvars, svars, evars, analysis, xvars>>

Probe ==
    /\ phase = "table"
    /\ \E zobristKey \in ZobristKeys :
          lastOp' = [op |-> "probe", zobristKey |-> zobristKey,
                     result |-> probe(table, zobristKey), order |-> lastOp.order]
    /\ UNCHANGED <<table, maxBytes, gvars, svars, evars, analysis, xvars>>

Clear ==
    /\ phase = "table"
    /\ table' = clear(table)
    /\ lastOp' = [op |-> "clear", order |-> <<>>]
    /\ UNCHANGED <<maxBytes, gvars, svars, evars, analysis, xvars>>

NextTT == Store \/ Probe \/ Clear

SpecTT == InitTT /\ [][NextTT]_vars

---------------------------------------------------------------------------
(* Zobrist hashing (TranspositionTable.computeHash).  The constructor fills  *)
(* pieceKeys, turnKey and the castle keys with independent random numbers;   *)
(* the model draws each key when it is first consulted and keeps it.         *)

MaxHashPieces == 2

\* values of randomBigInt(): zero and two numbers with no bit in common
KeyValues == {0, 1, 2}

\* for (let i = 0; i < 3; i++): three keys for each castle counter
CASTLE_KEY_COUNT == 3

\* <<white_castle_moves, black_castle_moves>> of a GameState: no castle move
\* yet, or as many White ones as there are keys and one more Black one
CastleMoveCounts == { <<0, 0>>, <<CASTLE_KEY_COUNT, CASTLE_KEY_COUNT + 1>> }

\* the layout whose sub-positions are hashed: jump cycles around D5
HashLayout == CHOOSE layout \in Layouts : <<"D5", "black", "man">> \in layout

\* a ^ b on non-negative integers
RECURSIVE Xor(_, _)
Xor(a, b) ==
    IF a = 0 THEN b
    ELSE IF b = 0 THEN a
    ELSE 2 * Xor(a \div 2, b \div 2) + (((a % 2) + (b % 2)) % 2)

RECURSIVE XorAll(_)
XorAll(ks) == IF ks = <<>> THEN 0 ELSE Xor(Head(ks), XorAll(Tail(ks)))

\* the key `${square}-${piece.type}-${piece.color}` of pieceKeys
PieceKeyName(b, sq) == <<sq, b[sq].type, b[sq].color>>

\* the pieceKeys entries computeHash reads for the board b
KeysRead(b) == {PieceKeyName(b, sq) : sq \in DOMAIN b}

\* a hash that leaves the side to move out
computeHashNoTurn(z, gameState, currentPlayer) ==
    LET b == gameState.board_state
        ps == OccupiedSquares(b)
        pieces == XorAll([i \in 1..Len(ps) |-> z.pieceKeys[PieceKeyName(b, ps[i])]])
        white == IF gameState.white_castle_moves > 0
                    /\ gameState.white_castle_moves <= CASTLE_KEY_COUNT
                 THEN z.whiteCastleKeys[gameState.white_castle_moves] ELSE 0
        black == IF gameState.black_castle_moves > 0
                    /\ gameState.black_castle_moves <= CASTLE_KEY_COUNT
                 THEN z.blackCastleKeys[gameState.black_castle_moves] ELSE 0
    IN Xor(Xor(pieces, white), black)

\* TranspositionTable.computeHash.  The castle keys are indexed from 1 here:
\* z.whiteCastleKeys[n] is this.whiteCastleKeys[n - 1].
computeHash(z, gameState, currentPlayer) ==
    LET b == gameState.board_state
        ps == OccupiedSquares(b)
        pieces == XorAll([i \in 1..Len(ps) |-> z.pieceKeys[PieceKeyName(b, ps[i])]])
        turn == IF currentPlayer = "black" THEN z.turnKey ELSE 0
        white == IF gameState.white_castle_moves > 0
                    /\ gameState.white_castle_moves <= CASTLE_KEY_COUNT
                 THEN z.whiteCastleKeys[gameState.white_castle_moves] ELSE 0
        black == IF gameState.black_castle_moves > 0
                    /\ gameState.black_castle_moves <= CASTLE_KEY_COUNT
                 THEN z.blackCastleKeys[gameState.black_castle_moves] ELSE 0
    IN Xor(Xor(Xor(pieces, turn), white), black)

\* the castle keys with the key of counter n drawn, if it is read and was not
\* drawn before
WithCastleKey(keys, n) ==
    IF n > 0 /\ n <= CASTLE_KEY_COUNT /\ n \notin DOMAIN keys
    THEN {keys @@ (n :> k) : k \in KeyValues}
    ELSE {keys}

\* the key tables with every key drawn that a hash of gameState reads
WithKeysFor(z, gameState) ==
    { [z EXCEPT !.pieceKeys = @ @@ drawn, !.whiteCastleKeys = w, !.blackCastleKeys = k] :
        drawn \in [KeysRead(gameState.board_state) \ DOMAIN z.pieceKeys -> KeyValues],
        w \in WithCastleKey(z.whiteCastleKeys, gameState.white_castle_moves),
        k \in WithCastleKey(z.blackCastleKeys, gameState.black_castle_moves) }

\* new TranspositionTable(): the turn key is drawn.  turns holds the legal
\* turns of the side to move.
InitHash ==
    /\ \E placed \in SUBSET HashLayout :
          /\ Cardinality(placed) <= MaxHashPieces
          /\ board = Position(placed, FALSE)
    /\ side \in Colors
    /\ phase = "ready"
    /\ turns = generateAllLegalTurns(board, side)
    /\ plies = 0
    /\ SearchIdle
    /\ EvalIdle
    /\ TableIdle
    /\ analysis = NoAnalysis
    /\ \E k \in KeyValues :
          zobrist = [made |-> TRUE, pieceKeys |-> <<>>, turnKey |-> k,
                     whiteCastleKeys |-> <<>>, blackCastleKeys |-> <<>>]
    /\ node = [pc |-> "none"]
    /\ call = [name |-> "none"]
    /\ client = [screen |-> "none"]

\* computeHash(gameState, currentPlayer) for a game state on the board, for
\* the side to move and for the other side
HashPosition ==
    /\ phase = "ready"
    /\ \E counts \in CastleMoveCounts :
          LET gameState == [board_state |-> board, white_castle_moves |-> counts[1],
                            black_castle_moves |-> counts[2]]
          IN \E z \in WithKeysFor(zobrist, gameState) :
                /\ zobrist' = z
                /\ call' = [name |-> "computeHash", gameState |-> gameState,
                            currentPlayer |-> side,
                            hash |-> computeHash(z, gameState, side),
                            white |-> computeHash(z, gameState, "white"),
                            black |-> computeHash(z, gameState, "black")]
    /\ phase' = "hashed"
    /\ UNCHANGED <<board, side, turns, plies, node, client>>
    /\ UNCHANGED <<svars, evars, tvars, analysis>>

\* the same call once more
HashAgain ==
    /\ phase = "hashed"
    /\ call' = [call EXCEPT !.name = "computeHash again",
                            !.hash = computeHash(zobrist, call.gameState, side)]
    /\ phase' = "rehashed"
    /\ UNCHANGED <<board, side, turns, plies, zobrist, client, node>>
    /\ UNCHANGED <<svars, evars, tvars, analysis>>

\* alphaBeta, lines 277-292 and 221-224: a legal turn is applied to the game
\* state, which keeps its castle counters, and the result is hashed for the
\* other side
HashAfterTurn ==
    /\ phase = "hashed"
    /\ \E i \in 1..Len(turns) :
          LET move == turns[i]
              newGameState == [call.gameState EXCEPT !.board_state = move.finalBoardState]
              nextPlayer == Opponent(side)
          IN \E z \in WithKeysFor(zobrist, newGameState) :
                /\ zobrist' = z
                /\ call' = [name |-> "computeHash after a turn",
                            gameState |-> call.gameState,
                            currentPlayer |-> side,
                            move |-> move,
                            before |-> call.hash,
                            hash |-> computeHash(z, newGameState, nextPlayer)]
                /\ board' = move.finalBoardState
                /\ side' = nextPlayer
    /\ phase' = "moved"
    /\ turns' = <<>>
    /\ UNCHANGED <<plies, node, client>>
    /\ UNCHANGED <<svars, evars, tvars, analysis>>

NextHash == HashPosition \/ HashAgain \/ HashAfterTurn

SpecHash == InitHash /\ [][NextHash]_vars

---------------------------------------------------------------------------
(* One node of Search.alphaBeta.  The subtree below the node is not         *)
(* expanded: each child returns one of the values a child can return.  The  *)
(* node's position is known by its Zobrist key and by the number of legal   *)
(* turns it has.                                                            *)

MaxNodeDepth == 2
MaxNodeMoves == 2
MaxNodes == 2

\* the key of the node's position
NodeKey == 0

\* new TranspositionTable(ttSizeMB): room for MaxEntries entries
NodeCapacity == EntryBytes * MaxEntries

\* the (alpha, beta) a node is called with: the full window and two narrow
\* ones
Windows == { <<-Infinity, Infinity>>, <<0, 50>>, <<-50, 0>> }

\* what the table holds for the node's position when the node is entered
NodeTables ==
    {<<>>} \cup
    { <<[key |-> KeyString(NodeKey), zobristKey |-> NodeKey, depth |-> d,
         score |-> s, flag |-> f, bestMoveNotation |-> "undefined"]>> :
        d \in {0, MaxNodeDepth}, s \in {-15, 40},
        f \in {"exact", "lowerbound", "upperbound"} }

\* move.notation of the idx-th ordered move
NotationOf(i) == IF i = 0 THEN "undefined" ELSE Digit(i)

Max(a, b) == IF a > b THEN a ELSE b

\* the values -alphaBeta(..., depth - 1, ...) takes when the deadline is seen
\* in the child: -0 from an entry check; the negated bestScore, still
\* -Infinity, of a child whose move loop was left at its first check (the
\* child has a move loop when its depth is positive)
childAbortScores(depth) == IF depth > 1 THEN AbortScores ELSE {0}

\* alphaBeta is called: the arguments of the call
Called(number, depth, window, moves) ==
    [pc |-> "entry", number |-> number, zobristKey |-> NodeKey, depth |-> depth,
     alpha |-> window[1], beta |-> window[2], moves |-> moves]

\* alphaBeta returns value at the return statement named by via, without a
\* store
NodeReturn(n, via, value) ==
    [pc |-> "returned", number |-> n.number, zobristKey |-> n.zobristKey,
     depth |-> n.depth, moves |-> n.moves, via |-> via, ret |-> value]

\* a search is under way at iteration searchDepth and calls alphaBeta on a
\* position depth plies above the horizon
InitNode ==
    /\ board = <<>>
    /\ side = "white"
    /\ phase = "search"
    /\ turns = <<>>
    /\ plies = 0
    /\ pc = "root"
    /\ maxDepth = MaxNodeDepth + 1
    /\ expired = FALSE
    /\ aborted = FALSE
    /\ searchDepth \in 1..(MaxNodeDepth + 1)
    /\ bestResult = NoResult
    /\ orderedMoves = <<>>
    /\ idx = 0
    /\ bestMove = NoTurn
    /\ bestScore = -Infinity
    /\ topMoves = <<>>
    /\ rootResult = NoResult
    /\ ret = NoResult
    /\ completed = <<>>
    /\ discarded = NoResult
    /\ observedAt = 0
    /\ EvalIdle
    /\ analysis = NoAnalysis
    /\ table \in NodeTables
    /\ maxBytes = NodeCapacity
    /\ lastOp = [op |-> "none"]
    /\ zobrist = [made |-> FALSE]
    /\ client = [screen |-> "none"]
    /\ call = [name |-> "none"]
    /\ \E depth \in 0..(searchDepth - 1), window \in Windows, moves \in 0..MaxNodeMoves :
          node = Called(1, depth, window, moves)

\* the clock reaches the time limit while the node is searched
NodeTick ==
    /\ node.pc \in {"entry", "loop"}
    /\ ~expired
    /\ expired' = TRUE
    /\ UNCHANGED <<pc, maxDepth, aborted, searchDepth, bestResult, orderedMoves, idx,
                   bestMove, bestScore, topMoves, rootResult, ret, completed,
                   discarded, observedAt>>
    /\ UNCHANGED <<gvars, evars, tvars, analysis, xvars>>

\* alphaBeta, lines 215-272: the abort check, the probe of the table, the
\* horizon, the position without a legal turn, and the start of the move loop.
\* At the horizon the value of quiescence or of the evaluator comes back.
NodeEnter ==
    /\ node.pc = "entry"
    /\ IF shouldAbort
       THEN /\ aborted' = TRUE
            /\ node' = NodeReturn(node, "abort", 0)
       ELSE LET ttEntry == probe(table, node.zobristKey)
                hit == ttEntry # NoEntry /\ ttEntry.depth >= node.depth
                alpha == IF hit /\ ttEntry.flag = "lowerbound"
                         THEN Max(node.alpha, ttEntry.score) ELSE node.alpha
                beta == IF hit /\ ttEntry.flag = "upperbound"
                        THEN Min(node.beta, ttEntry.score) ELSE node.beta
            IN /\ aborted' = aborted
               /\ IF hit /\ (ttEntry.flag = "exact" \/ alpha >= beta)
                  THEN node' = NodeReturn(node, "table", ttEntry.score)
                  ELSE IF node.depth <= 0
                  THEN \E score \in Scores : node' = NodeReturn(node, "horizon", score)
                  ELSE IF node.moves = 0
                  THEN node' = NodeReturn(node, "no moves", -CHECKMATE_SCORE + node.depth)
                  ELSE node' = [pc |-> "loop", number |-> node.number,
                                zobristKey |-> node.zobristKey, depth |-> node.depth,
                                moves |-> node.moves, started |-> alpha,
                                alpha |-> alpha, beta |-> beta, idx |-> 1,
                                scores |-> <<>>, bestScore |-> -Infinity,
                                bestMoveNotation |-> "undefined",
                                flag |-> "upperbound", cutoff |-> FALSE]
    /\ UNCHANGED <<pc, maxDepth, expired, searchDepth, bestResult, orderedMoves, idx,
                   bestMove, bestScore, topMoves, rootResult, ret, completed,
                   discarded, observedAt>>
    /\ UNCHANGED <<gvars, evars, tvars, analysis, zobrist, client, call>>

\* one pass of the move loop of alphaBeta (274-309).  The deadline may be seen
\* at the loop's own check, or by a check in the child.
NodeMove ==
    /\ node.pc = "loop"
    /\ ~node.cutoff
    /\ node.idx <= node.moves
    /\ IF shouldAbort
       THEN /\ aborted' = TRUE
            /\ expired' = expired
            /\ node' = [node EXCEPT !.pc = "store"]
       ELSE \E seenBelow \in BOOLEAN :
              \E score \in (IF seenBelow THEN childAbortScores(node.depth) ELSE Scores) :
                 LET alpha == Max(node.alpha, score)
                 IN /\ aborted' = seenBelow
                    /\ expired' = seenBelow
                    /\ node' = [node EXCEPT
                          !.scores = Append(@, score),
                          !.bestScore = IF score > @ THEN score ELSE @,
                          !.bestMoveNotation = IF score > node.bestScore
                                               THEN NotationOf(node.idx) ELSE @,
                          !.alpha = alpha,
                          !.flag = IF alpha >= node.beta THEN "lowerbound" ELSE "exact",
                          !.cutoff = alpha >= node.beta,
                          !.idx = @ + 1]
    /\ UNCHANGED <<pc, maxDepth, searchDepth, bestResult, orderedMoves, idx,
                   bestMove, bestScore, topMoves, rootResult, ret, completed,
                   discarded, observedAt>>
    /\ UNCHANGED <<gvars, evars, tvars, analysis, zobrist, client, call>>

\* the end of alphaBeta (311-321): the store and the return
NodeFinish ==
    /\ \/ node.pc = "store"
       \/ node.pc = "loop" /\ (node.cutoff \/ node.idx > node.moves)
    /\ LET payload == [score |-> node.bestScore, flag |-> node.flag,
                       bestMoveNotation |-> node.bestMoveNotation]
       IN /\ table' = store(table, maxBytes, node.zobristKey, node.depth, payload)
          /\ lastOp' = [op |-> "store", zobristKey |-> node.zobristKey,
                        depth |-> node.depth, payload |-> payload, before |-> table]
    /\ node' = [pc |-> "returned", number |-> node.number,
                zobristKey |-> node.zobristKey, depth |-> node.depth,
                moves |-> node.moves, via |-> "loop", started |-> node.started,
                scores |-> node.scores, cutoff |-> node.cutoff,
                ret |-> node.bestScore]
    /\ UNCHANGED <<maxBytes, gvars, svars, evars, analysis, zobrist, client, call>>

\* the search goes on in the same iteration and calls alphaBeta on another
\* position, whose key is not in the table; call keeps what the node before
\* returned
NodeNext ==
    /\ node.pc = "returned"
    /\ node.number < MaxNodes
    /\ call' = [name |-> "alphaBeta", depth |-> node.depth, moves |-> node.moves,
                via |-> node.via, ret |-> node.ret]
    /\ \E depth \in 0..(searchDepth - 1), window \in Windows, moves \in 0..MaxNodeMoves :
          node' = [Called(node.number + 1, depth, window, moves)
                      EXCEPT !.zobristKey = NodeKey + 1]
    /\ UNCHANGED <<gvars, svars, evars, tvars, analysis, zobrist, client>>

NextNode == NodeTick \/ NodeEnter \/ NodeMove \/ NodeFinish \/ NodeNext

SpecNode == InitNode /\ [][NextNode]_vars

---------------------------------------------------------------------------
(* The recursion of the search with no deadline: one path of calls from     *)
(* searchRoot down through alphaBeta and quiescence.  node is the call on    *)
(* top of the stack, board and side its position, turns the legal turns of  *)
(* that position.                                                           *)

MaxDescentDepth == 1
MaxDescentPieces == 4

\* a recursion that passes its depth on unchanged
childDepthSame(depth) == depth

\* alphaBeta(newGameState, nextPlayer, depth - 1, ...)
childDepth(depth) == depth - 1

\* captureMoves: allMoves.filter((m) => m.capturedSquares.length > 0)
captureMoves(allMoves) == SelectSeq(allMoves, LAMBDA m : Len(m.capturedSquares) > 0)

\* the pieces on the board
PiecesOn(b) == Cardinality(DOMAIN b)

\* searchRoot(gameState, currentPlayer, depth) is called in an iteration of
\* searchIterativeDeepening with timeLimit = Infinity
InitDescent ==
    /\ \E layout \in Layouts :
         \E placed \in SUBSET layout :
            /\ Cardinality(placed) <= MaxDescentPieces
            /\ board = Position(placed, FALSE)
    /\ side \in Colors
    /\ phase = "search"
    /\ turns = generateAllLegalTurns(board, side)
    /\ plies = 0
    /\ pc = "root"
    /\ maxDepth = MaxDescentDepth
    /\ expired = FALSE
    /\ aborted = FALSE
    /\ searchDepth \in 1..MaxDescentDepth
    /\ bestResult = NoResult
    /\ orderedMoves = <<>>
    /\ idx = 0
    /\ bestMove = NoTurn
    /\ bestScore = -Infinity
    /\ topMoves = <<>>
    /\ rootResult = NoResult
    /\ ret = NoResult
    /\ completed = <<>>
    /\ discarded = NoResult
    /\ observedAt = 0
    /\ EvalIdle
    /\ TableIdle
    /\ analysis = NoAnalysis
    /\ zobrist = [made |-> FALSE]
    /\ client = [screen |-> "none"]
    /\ call = [name |-> "none"]
    /\ node = [pc |-> "searchRoot", depth |-> searchDepth, ply |-> 0,
               nesting |-> 0, entered |-> PiecesOn(board)]

\* searchRoot (140-158) or alphaBeta (274-292) calls alphaBeta on the position
\* after one of its moves
DescendAlphaBeta ==
    /\ node.pc \in {"searchRoot", "alphaBeta"}
    /\ node.depth > 0
    /\ \E i \in 1..Len(turns) :
          /\ board' = turns[i].finalBoardState
          /\ side' = Opponent(side)
    /\ turns' = generateAllLegalTurns(board', side')
    /\ node' = [pc |-> "alphaBeta", depth |-> childDepth(node.depth),
                ply |-> node.ply + 1, nesting |-> 0, entered |-> PiecesOn(board')]
    /\ UNCHANGED <<phase, plies, zobrist, client, call>>
    /\ UNCHANGED <<svars, evars, tvars, analysis>>

\* alphaBeta, lines 245-248: at depth <= 0 quiescence is called on the same
\* position
EnterQuiescence ==
    /\ node.pc = "alphaBeta"
    /\ node.depth <= 0
    /\ node' = [node EXCEPT !.pc = "quiescence"]
    /\ UNCHANGED <<gvars, svars, evars, tvars, analysis, zobrist, client, call>>

\* quiescence (365-375) calls itself on the position after a capture turn
DescendQuiescence ==
    /\ node.pc = "quiescence"
    /\ \E i \in 1..Len(captureMoves(turns)) :
          /\ board' = captureMoves(turns)[i].finalBoardState
          /\ side' = Opponent(side)
    /\ turns' = generateAllLegalTurns(board', side')
    /\ node' = [node EXCEPT !.ply = @ + 1, !.nesting = @ + 1]
    /\ UNCHANGED <<phase, plies, zobrist, client, call>>
    /\ UNCHANGED <<svars, evars, tvars, analysis>>

\* the call on top of the stack returns without a further call: searchRoot and
\* alphaBeta on a position without a legal turn (117-126, 263-265), alphaBeta
\* on a table hit (227-242), quiescence on a stand-pat cutoff or without a
\* capture turn (342-358)
ReturnFromCall ==
    /\ \/ node.pc \in {"searchRoot", "alphaBeta"} /\ node.depth > 0 /\ turns = <<>>
       \/ node.pc = "alphaBeta"
       \/ node.pc = "quiescence"
    /\ node' = [node EXCEPT !.pc = "returned"]
    /\ UNCHANGED <<gvars, svars, evars, tvars, analysis, zobrist, client, call>>

NextDescent ==
    DescendAlphaBeta \/ EnterQuiescence \/ DescendQuiescence \/ ReturnFromCall

\* a step of NextDescent can be taken: the guards of its actions
DescentEnabled ==
    \/ node.pc \in {"searchRoot", "alphaBeta"} /\ node.depth > 0 /\ turns # <<>>
    \/ node.pc = "alphaBeta" /\ node.depth <= 0
    \/ node.pc = "quiescence" /\ captureMoves(turns) # <<>>
    \/ node.pc \in {"searchRoot", "alphaBeta"} /\ node.depth > 0 /\ turns = <<>>
    \/ node.pc = "alphaBeta"
    \/ node.pc = "quiescence"

\* the program runs on while it can: weak fairness of NextDescent, which is
\* WF_vars(NextDescent) with ENABLED <<NextDescent>>_vars written as
\* DescentEnabled
DescentRunsOn == []<>(~DescentEnabled) \/ []<><<NextDescent>>_vars

SpecDescent == InitDescent /\ [][NextDescent]_vars /\ DescentRunsOn

---------------------------------------------------------------------------
(* The game screens.  A click handler runs to its end before the next event *)
(* is handled, and the state it sets is the state the next handler reads.   *)
(* legalMoves holds the destination (move.to) of each LegalMove.            *)

\* turnState = null
NoTurnState == [moves |-> <<>>, capturedSquares |-> <<>>, mustContinue |-> FALSE]

\* the destinations of the moves executeStep returned
Destinations(legalNextMoves) ==
    [i \in 1..Len(legalNextMoves) |-> legalNextMoves[i].to]

\* "Starting a new turn or selecting a piece": the state the handler sets
SelectPiece(square, boardState, turnState, legalMoves, playerColor) ==
    LET piece == At(boardState, square)
        same == [boardState |-> boardState, turnState |-> turnState,
                 legalMoves |-> legalMoves]
    IN IF piece = Null \/ piece.color # playerColor THEN same
       ELSE TheOne({ IF Len(moves) = 0 THEN same
                     ELSE [boardState |-> boardState,
                           turnState |-> createEmptyTurnState(square),
                           legalMoves |-> moves] :
                     moves \in {getInitialMoves(square, boardState, playerColor)} })

\* handleSquareClick past its first guard: boardState, turnState and
\* legalMoves after the click
handleSquareClick(square, boardState, turnState, legalMoves, playerColor) ==
    LET same == [boardState |-> boardState, turnState |-> turnState,
                 legalMoves |-> legalMoves]
        currentSquare == turnState.moves[Len(turnState.moves)]
    IN IF turnState = NoTurnState
       THEN SelectPiece(square, boardState, turnState, legalMoves, playerColor)
       ELSE IF square = currentSquare
       THEN IF Len(turnState.moves) > 1 THEN same
            ELSE [boardState |-> boardState, turnState |-> NoTurnState,
                  legalMoves |-> <<>>]
       ELSE IF Includes(legalMoves, square)
       THEN TheOne({ IF result.success
                     THEN [boardState |-> result.newBoardState,
                           turnState |-> result.newTurnState,
                           legalMoves |-> Destinations(result.legalNextMoves)]
                     ELSE same :
                     result \in {executeStep(square, boardState, turnState,
                                             playerColor)} })
       ELSE IF turnState.mustContinue THEN same
       ELSE IF Len(legalMoves) = 0 THEN same
       ELSE SelectPiece(square, boardState, turnState, legalMoves, playerColor)

---------------------------------------------------------------------------
(* The online game page (useGameState, useGameActions).  board is           *)
(* game.board_state, side is game.current_turn and plies is                 *)
(* game.move_history.length; the client is that of the player to move, the  *)
(* one whose isPlayerTurn is true.  client.steps counts the steps executed.  *)

MaxOnlinePlies == 3
MaxOnlineSteps == 3

\* no turn was submitted yet
NoSubmit == [player |-> "none"]

\* the layouts with every piece within three ranks of a castle
CastleLayouts ==
    { l \in Layouts : \A p \in l : Sq(p[1])[2] <= 3 \/ Sq(p[1])[2] >= 14 }

\* the squares a click on which can change the state: the pieces and the
\* highlighted destinations
Clickable(boardState, legalMoves) ==
    SelectSeq(ALL_SQUARES,
              LAMBDA sq : sq \in DOMAIN boardState \/ Includes(legalMoves, sq))

InitOnline ==
    /\ \E placed \in UNION {SUBSET l : l \in CastleLayouts} :
          board = Position(placed, FALSE)
    /\ side \in Colors
    /\ phase = "ready"
    /\ turns = <<>>
    /\ plies = 0
    /\ SearchIdle
    /\ EvalIdle
    /\ TableIdle
    /\ analysis = NoAnalysis
    /\ zobrist = [made |-> FALSE]
    /\ node = [pc |-> "none"]
    /\ call = [name |-> "none"]
    /\ client = [screen |-> "online", status |-> "active",
                 white_castle_moves |-> 0, black_castle_moves |-> 0,
                 turnState |-> NoTurnState, legalMoves |-> <<>>,
                 steps |-> 0, submitted |-> NoSubmit]

\* useGameActions.handleSquareClick(square), playerColor being the side to move
OnlineSquareClick ==
    /\ client.screen = "online"
    /\ client.status = "active"
    /\ \E square \in Range(Clickable(board, client.legalMoves)) :
       \E after \in {handleSquareClick(square, board, client.turnState,
                                        client.legalMoves, side)} :
          LET stepped == IF after.boardState # board THEN 1 ELSE 0
          IN /\ client.steps + stepped <= MaxOnlineSteps
             /\ board' = after.boardState
             /\ client' = [client EXCEPT !.turnState = after.turnState,
                                         !.legalMoves = after.legalMoves,
                                         !.steps = @ + stepped]
    /\ UNCHANGED <<side, phase, turns, plies, svars, evars, tvars, analysis,
                   zobrist, node, call>>

\* white_castle_moves and black_castle_moves of updateData
castleMovesAfter(playerColor, turnState, white_castle_moves, black_castle_moves) ==
    LET lastSquare == turnState.moves[Len(turnState.moves)]
        ended == Includes(oppCastle(playerColor), lastSquare)
    IN [white |-> IF ended /\ playerColor = "white" THEN white_castle_moves + 1
                  ELSE white_castle_moves,
        black |-> IF ended /\ playerColor # "white" THEN black_castle_moves + 1
                  ELSE black_castle_moves]

\* useGameActions.handleSubmitTurn, the update of the games row and the
\* realtime update that sets game to the row and clears the turn state.  With
\* an empty notation the handler throws before the update and changes nothing.
OnlineSubmitTurn ==
    /\ client.screen = "online"
    /\ plies < MaxOnlinePlies
    /\ client.turnState # NoTurnState
    /\ ~client.turnState.mustContinue
    /\ LET turnState == client.turnState
           notation == getTurnNotation(turnState)
           winCondition == checkWinCondition(board, side)
           counters == castleMovesAfter(side, turnState, client.white_castle_moves,
                                        client.black_castle_moves)
       IN IF notation = ""
          THEN UNCHANGED <<side, plies, client>>
          ELSE /\ side' = IF winCondition # "null" THEN side ELSE Opponent(side)
               /\ plies' = plies + 1
               /\ client' = [client EXCEPT
                      !.status = IF winCondition # "null" THEN "completed" ELSE @,
                      !.white_castle_moves = counters.white,
                      !.black_castle_moves = counters.black,
                      !.turnState = NoTurnState,
                      !.legalMoves = <<>>,
                      !.submitted = [player |-> side, moves |-> turnState.moves,
                                     white_castle_moves |-> client.white_castle_moves,
                                     black_castle_moves |-> client.black_castle_moves]]
    /\ UNCHANGED <<board, phase, turns, svars, evars, tvars, analysis,
                   zobrist, node, call>>

NextOnline == OnlineSquareClick \/ OnlineSubmitTurn

SpecOnline == InitOnline /\ [][NextOnline]_vars

---------------------------------------------------------------------------
(* The computer-game screen (ComputerGameClient).  board is boardState and  *)
(* side is currentTurn; client holds the other state variables.  An effect  *)
(* runs after the render that follows a change of its dependencies, before  *)
(* the next event, so each handler is taken together with the effects it    *)
(* sets off.  A timer callback reads the variables of the render that       *)
(* scheduled it; client.timers holds those of the callbacks not yet run, in *)
(* the order of their scheduling.  Recorded beside the React state:         *)
(* client.game, the number of times New Game was pressed; client.steps, the *)
(* steps and computer moves made; client.fresh, true from New Game until    *)
(* something is done in the new game; client.moved, the turn states of the  *)
(* current human turn in which a step was executed; client.restarted, true  *)
(* once a click has replaced a turn state that held a step by a new one;    *)
(* client.submitted, the player and the squares of the turn state that the  *)
(* last handler submitted.  The search is not run: its bestMove is any of   *)
(* the first MaxBestMoves legal turns.                                      *)

MaxGames == 1
MaxClientSteps == 1
MaxBestMoves == 2

WHITE_KNIGHTS == {"C6", "D7", "I7", "J6"}
WHITE_MEN == {"D6", "E6", "E7", "F6", "F7", "G6", "G7", "H6", "H7", "I6"}
BLACK_KNIGHTS == {"C11", "D10", "I10", "J11"}
BLACK_MEN == {"D11", "E10", "E11", "F10", "F11", "G10", "G11", "H10", "H11", "I11"}

getInitialBoardState ==
    Position({<<sq, "white", "knight">> : sq \in WHITE_KNIGHTS}
             \cup {<<sq, "white", "man">> : sq \in WHITE_MEN}
             \cup {<<sq, "black", "knight">> : sq \in BLACK_KNIGHTS}
             \cup {<<sq, "black", "man">> : sq \in BLACK_MEN}, FALSE)

\* the squares of s are the first squares of t
IsPrefix(s, t) == Len(s) <= Len(t) /\ SubSeq(t, 1, Len(s)) = s

\* the two effects of the component, run on the state c, boardState,
\* currentTurn until they change nothing: the engine is created once the
\* game has started, and on the computer's turn a callback is scheduled
afterEffects(c, boardState, currentTurn) ==
    LET made == IF c.gameStarted /\ ~c.engine THEN [c EXCEPT !.engine = TRUE] ELSE c
        idle == \/ ~made.gameStarted
                \/ ~made.engine
                \/ made.winner # "null"
                \/ made.turnState # NoTurnState
                \/ currentTurn = made.humanColor
                \/ made.isEngineThinking
    IN IF idle THEN made
       ELSE [made EXCEPT !.isEngineThinking = TRUE,
                         !.timers = Append(@, [boardState |-> boardState,
                                               currentTurn |-> currentTurn,
                                               humanColor |-> made.humanColor,
                                               moveHistory |-> made.moveHistory,
                                               game |-> made.game])]

InitClient ==
    /\ board = getInitialBoardState
    /\ side = "white"
    /\ phase = "ready"
    /\ turns = <<>>
    /\ plies = 0
    /\ SearchIdle
    /\ EvalIdle
    /\ TableIdle
    /\ analysis = NoAnalysis
    /\ zobrist = [made |-> FALSE]
    /\ node = [pc |-> "none"]
    /\ call = [name |-> "none"]
    /\ client = [screen |-> "computer", humanColor |-> "white",
                 gameStarted |-> FALSE, engine |-> FALSE, winner |-> "null",
                 turnState |-> NoTurnState, legalMoves |-> <<>>,
                 moveHistory |-> <<>>, isEngineThinking |-> FALSE,
                 timers |-> <<>>, game |-> 0, steps |-> 0, fresh |-> FALSE,
                 moved |-> 0, restarted |-> FALSE, submitted |-> NoSubmit]

\* the "Play as" select of the setup screen
SetHumanColor ==
    /\ client.screen = "computer"
    /\ ~client.gameStarted
    /\ \E value \in Colors :
          /\ value # client.humanColor
          /\ client' = afterEffects([client EXCEPT !.humanColor = value,
                                                   !.submitted = NoSubmit],
                                    board, side)
    /\ UNCHANGED <<gvars, svars, evars, tvars, analysis, zobrist, node, call>>

\* handleStartGame, the button of the setup screen
StartGame ==
    /\ client.screen = "computer"
    /\ ~client.gameStarted
    /\ board' = getInitialBoardState
    /\ side' = "white"
    /\ client' = afterEffects([client EXCEPT !.gameStarted = TRUE,
                                             !.turnState = NoTurnState,
                                             !.legalMoves = <<>>,
                                             !.moveHistory = <<>>,
                                             !.winner = "null",
                                             !.moved = 0,
                                             !.restarted = FALSE,
                                             !.submitted = NoSubmit],
                              board', side')
    /\ UNCHANGED <<phase, turns, plies, svars, evars, tvars, analysis, zobrist,
                   node, call>>

\* handleNewGame, the button of the game screen
NewGame ==
    /\ client.screen = "computer"
    /\ client.gameStarted
    /\ client.game < MaxGames
    /\ board' = getInitialBoardState
    /\ side' = "white"
    /\ client' = afterEffects([client EXCEPT !.gameStarted = FALSE,
                                             !.engine = FALSE,
                                             !.turnState = NoTurnState,
                                             !.legalMoves = <<>>,
                                             !.moveHistory = <<>>,
                                             !.winner = "null",
                                             !.isEngineThinking = FALSE,
                                             !.game = @ + 1,
                                             !.fresh = TRUE,
                                             !.moved = 0,
                                             !.restarted = FALSE,
                                             !.submitted = NoSubmit],
                              board', side')
    /\ UNCHANGED <<phase, turns, plies, svars, evars, tvars, analysis, zobrist,
                   node, call>>

\* ComputerGameClient.handleSquareClick(square)
ClientSquareClick ==
    /\ client.screen = "computer"
    /\ client.winner = "null"
    /\ client.gameStarted
    /\ side = client.humanColor
    /\ \E square \in Range(Clickable(board, client.legalMoves)) :
       \E after \in {handleSquareClick(square, board, client.turnState,
                                        client.legalMoves, side)} :
          LET stepped == IF after.boardState # board THEN 1 ELSE 0
              first == IF stepped = 1 /\ Len(client.turnState.moves) = 1 THEN 1 ELSE 0
          IN /\ client.steps + stepped <= MaxClientSteps
             /\ board' = after.boardState
             /\ client' = afterEffects(
                   [client EXCEPT !.turnState = after.turnState,
                                  !.legalMoves = after.legalMoves,
                                  !.steps = @ + stepped,
                                  !.moved = @ + first,
                                  !.fresh = @ /\ stepped = 0,
                                  !.restarted =
                                      \/ @
                                      \/ /\ Len(client.turnState.moves) > 1
                                         /\ ~IsPrefix(client.turnState.moves,
                                                      after.turnState.moves),
                                  !.submitted = NoSubmit],
                   board', side)
    /\ UNCHANGED <<side, phase, turns, plies, svars, evars, tvars, analysis,
                   zobrist, node, call>>

\* ComputerGameClient.handleSubmitTurn.  The button is on the game screen
\* while currentTurn is humanColor, and is disabled when there is no turn
\* state, when the turn must continue and when there is a winner.
ClientSubmitTurn ==
    /\ client.screen = "computer"
    /\ client.gameStarted
    /\ side = client.humanColor
    /\ client.winner = "null"
    /\ client.turnState # NoTurnState
    /\ ~client.turnState.mustContinue
    /\ LET notation == getTurnNotation(client.turnState)
           winCondition == checkWinCondition(board, side)
           computerColor == Opponent(client.humanColor)
       IN /\ side' = IF winCondition # "null" THEN side ELSE computerColor
          /\ client' = afterEffects(
                [client EXCEPT !.moveHistory = IF notation # "" THEN Append(@, notation)
                                               ELSE @,
                               !.winner = IF winCondition # "null" THEN side ELSE @,
                               !.turnState = NoTurnState,
                               !.legalMoves = <<>>,
                               !.fresh = FALSE,
                               !.moved = 0,
                               !.restarted = FALSE,
                               !.submitted = [player |-> side,
                                              moves |-> client.turnState.moves]],
                board, side')
    /\ UNCHANGED <<board, phase, turns, plies, svars, evars, tvars, analysis,
                   zobrist, node, call>>

\* the callback of setTimeout(..., 100) that was scheduled first.  bestMove
\* is one of the legal turns of the position the callback read, null when
\* there is none.
TimerFires ==
    /\ client.screen = "computer"
    /\ Len(client.timers) > 0
    /\ client.steps < MaxClientSteps
    /\ \E allMoves \in {generateAllLegalTurns(Head(client.timers).boardState,
                                              Head(client.timers).currentTurn)} :
          LET read == Head(client.timers)
              ran == [client EXCEPT !.timers = Tail(@),
                                    !.isEngineThinking = FALSE,
                                    !.steps = @ + 1,
                                    !.fresh = @ /\ read.game # client.game,
                                    !.moved = 0,
                                    !.restarted = FALSE,
                                    !.submitted = NoSubmit]
          IN IF Len(allMoves) = 0
             THEN /\ client' = afterEffects([ran EXCEPT !.winner = read.humanColor],
                                            board, side)
                  /\ UNCHANGED <<board, side>>
             ELSE \E i \in 1..Min(Len(allMoves), MaxBestMoves) :
                     LET best == allMoves[i]   \* analysis.bestMove
                         winCondition == checkWinCondition(best.finalBoardState,
                                                           read.currentTurn)
                     IN /\ board' = best.finalBoardState
                        /\ side' = IF winCondition # "null" THEN side
                                   ELSE read.humanColor
                        /\ client' = afterEffects(
                              [ran EXCEPT !.moveHistory = Append(read.moveHistory,
                                                                 best.notation),
                                          !.winner = IF winCondition # "null"
                                                     THEN read.currentTurn ELSE @],
                              board', side')
    /\ UNCHANGED <<phase, turns, plies, svars, evars, tvars, analysis, zobrist,
                   node, call>>

NextClient ==
    \/ SetHumanColor
    \/ StartGame
    \/ NewGame
    \/ ClientSquareClick
    \/ ClientSubmitTurn
    \/ TimerFires

SpecClient == InitClient /\ [][NextClient]_vars

---------------------------------------------------------------------------
(* Properties of the turn generator.  In a state with phase = "generated",  *)
(* turns is generateAllLegalTurns(board, side).                             *)

Generated == phase = "generated"
Returned == IF Generated THEN Range(turns) ELSE {}

CountOf(b, c) == Cardinality({sq \in DOMAIN b : b[sq].color = c})

\* the squares a jump of colour c may land on from sq in b
JumpTargets(sq, b, c) ==
    {t \in {TwoStep(sq, DIRECTIONS[i]) : i \in 1..Len(DIRECTIONS)} \ {NoSquare} :
        isValidJump(sq, t, b, c).valid}

CanterTargets(sq, b, c) ==
    {t \in {TwoStep(sq, DIRECTIONS[i]) : i \in 1..Len(DIRECTIONS)} \ {NoSquare} :
        isValidCanter(sq, t, b, c).valid}

EndsInOpponentCastle(t) == Includes(Castle(Opponent(side)), t.endSquare)

C4_PieceConservation ==
    \A t \in Returned :
        LET final == t.finalBoardState
        IN /\ At(board, t.moves[1]).color = side
           /\ CountOf(final, side) = CountOf(board, side)
           /\ CountOf(final, Opponent(side))
                 = CountOf(board, Opponent(side)) - Len(t.capturedSquares)
           /\ \A i \in 1..Len(t.capturedSquares) :
                 /\ At(board, t.capturedSquares[i]).color = Opponent(side)
                 /\ At(final, t.capturedSquares[i]) = Null
           /\ At(final, t.endSquare) = At(board, t.moves[1])
           /\ t.endSquare = t.moves[Len(t.moves)]

C4_Witness ==
    \E t \in Returned : Len(t.capturedSquares) >= 2 /\ Len(t.moves) = 3

\* C5: in every returned turn a step that lands on a square of the opponent's
\* castle is the last step of the turn.
C5_CastleLandingEndsTurn ==
    \A t \in Returned :
        \A k \in 2..Len(t.moves) :
            Includes(Castle(Opponent(side)), t.moves[k]) => k = Len(t.moves)

\* a turn that jumped into the opponent's castle although a further jump from
\* there is legal on its final board
C5_Witness ==
    \E t \in Returned :
        /\ EndsInOpponentCastle(t)
        /\ Len(t.capturedSquares) >= 1
        /\ JumpTargets(t.endSquare, t.finalBoardState, side) # {}

\* C6: no returned turn ends on the square it started from.
C6_NeverEndsOnStart ==
    \A t \in Returned : t.endSquare # t.startSquare

\* C7: mandatory jump continuation.  For a returned turn with at least one
\* capture and at most 15 steps that does not end in the opponent's castle,
\* the moved piece has on the final board no legal jump from endSquare to the
\* origin or to a square not visited in the turn.
C7_JumpContinuation ==
    \A t \in Returned :
        (/\ Len(t.capturedSquares) >= 1
         /\ Len(t.moves) - 1 <= MaxTurnDepth
         /\ ~EndsInOpponentCastle(t)) =>
            \A j \in JumpTargets(t.endSquare, t.finalBoardState, side) :
                j # t.startSquare /\ Includes(t.moves, j)

\* a multi-jump turn exists and another returned turn passed through the origin
C7_Witness ==
    /\ \E t \in Returned : Len(t.capturedSquares) >= 2 /\ ~EndsInOpponentCastle(t)
    /\ \E t \in Returned :
          \E k \in 2..(Len(t.moves) - 1) : t.moves[k] = t.startSquare

\* C10: no revisit.  In every returned turn no square other than the start
\* square occurs more than once in the moves path.
C10_NoRevisit ==
    \A t \in Returned :
        \A i, j \in 1..Len(t.moves) :
            (i < j /\ t.moves[i] = t.moves[j]) => t.moves[i] = t.startSquare

\* a returned turn stops where its only further jump leads to a visited square
C10_Witness ==
    \E t \in Returned :
        /\ ~EndsInOpponentCastle(t)
        /\ \E j \in JumpTargets(t.endSquare, t.finalBoardState, side) :
              j # t.startSquare /\ Includes(t.moves, j)


\* the successful executeStep results of every canter open to result r's piece
CanterSteps(r) ==
    LET cur == r.newTurnState.moves[Len(r.newTurnState.moves)]
    IN {x \in {executeStep(a, r.newBoardState, r.newTurnState, side) :
                 a \in CanterTargets(cur, r.newBoardState, side)} : x.success}

JumpSteps(r) ==
    LET cur == r.newTurnState.moves[Len(r.newTurnState.moves)]
    IN {x \in {executeStep(j, r.newBoardState, r.newTurnState, side) :
                 j \in JumpTargets(cur, r.newBoardState, side)} : x.success}

\* a turn of the piece on sq before its first step, as a step result
TurnStart(sq) ==
    [success |-> TRUE, error |-> "", newBoardState |-> board,
     newTurnState |-> createEmptyTurnState(sq), legalNextMoves |-> <<>>,
     message |-> ""]

OwnSquares == {sq \in DOMAIN board : board[sq].color = side}

AfterOneCanter == UNION {CanterSteps(TurnStart(sq)) : sq \in OwnSquares}
AfterCanters == AfterOneCanter \cup UNION {CanterSteps(r) : r \in AfterOneCanter}
AfterFirstCapture ==
    UNION {JumpSteps(TurnStart(sq)) : sq \in OwnSquares}
    \cup UNION {JumpSteps(r) : r \in AfterOneCanter}

\* the squares executeStep may be asked to step to from sq: all within two
\* files and two ranks of it
Near(sq) ==
    {t \in {<<sq[1] + df, sq[2] + dr>> : df \in -2..2, dr \in -2..2} \ {sq} :
        isValidSquare(t)}

Mover(r) == At(board, r.newTurnState.moves[1])
Current(r) == r.newTurnState.moves[Len(r.newTurnState.moves)]

\* C8: Knight's charge is knight-only.  (a) A returned turn whose first step
\* is a canter and that captures was made by a Knight.  (b) executeStep on a
\* jump by a Man after one or two canters of the same turn fails with "Only
\* knights can jump after cantering".  (c) After the first capture of a turn
\* executeStep succeeds only for jumps.
C8_KnightsChargeOnly ==
    /\ \A t \in Returned :
          (/\ Len(t.moves) >= 3
           /\ isValidCanter(t.moves[1], t.moves[2], board, side).valid
           /\ Len(t.capturedSquares) >= 1) =>
              At(board, t.startSquare).type = "knight"
    /\ Generated =>
          /\ \A r \in AfterCanters :
                Mover(r).type = "man" =>
                   \A j \in JumpTargets(Current(r), r.newBoardState, side) :
                      LET x == executeStep(j, r.newBoardState, r.newTurnState, side)
                      IN ~x.success
                         /\ x.error = "Only knights can jump after cantering"
          /\ \A r \in AfterFirstCapture :
                \A to \in Near(Current(r)) :
                   executeStep(to, r.newBoardState, r.newTurnState, side).success
                      => isValidJump(Current(r), to, r.newBoardState, side).valid

\* the generator returned a charge, a Man of the same position that has
\* cantered stands where a jump would otherwise be legal, and a piece that has
\* captured stands next to an empty square
C8_Witness ==
    /\ \E t \in Returned :
          /\ isValidCanter(t.moves[1], t.moves[2], board, side).valid
          /\ Len(t.capturedSquares) >= 1
    /\ \E r \in AfterCanters :
          /\ Mover(r).type = "man"
          /\ JumpTargets(Current(r), r.newBoardState, side) # {}
    /\ \E r \in AfterFirstCapture :
          \E to \in Near(Current(r)) :
             isValidPlainMove(Current(r), to, r.newBoardState).valid

\* C9: canter chains are generated.  When no jump is available at turn start,
\* a piece canters from o to a, has no jump from a, and a further canter from a
\* to an unvisited square b outside its own castle is legal, both the turn o-a
\* and the turn o-a-b are returned.
C9_CanterChainsGenerated ==
    (Generated /\ Len(checkFirstMovePossibleJumps(board, side)) = 0) =>
        \A r \in AfterOneCanter :
            LET o == r.newTurnState.moves[1]
                a == Current(r)
            IN (JumpTargets(a, r.newBoardState, side) = {}
                /\ ~Includes(Castle(side), a)) =>
                  \A b \in CanterTargets(a, r.newBoardState, side) :
                      (b # o /\ b # a /\ ~Includes(Castle(side), b)) =>
                          /\ \E t \in Returned : t.moves = <<o, a>>
                          /\ \E t \in Returned : t.moves = <<o, a, b>>

\* C11: the list returned by generateAllLegalTurns holds no two turns with the
\* same notation string.
C11_NoDuplicateNotation ==
    \A i, j \in 1..Len(turns) :
        (Generated /\ i < j) => turns[i].notation # turns[j].notation

\* the turns collected before deduplication held the same notation twice
C11_Witness ==
    /\ Generated
    /\ Len(turns) >= 2
    /\ Len(CollectTurns(board, side)) > Len(turns)

\* the board of the position after the first k steps of turn t
RECURSIVE BoardAfter(_, _)
BoardAfter(t, k) ==
    IF k = 0 THEN board
    ELSE TheOne({ MovePiece(b, t.moves[k], t.moves[k + 1],
                            isValidJump(t.moves[k], t.moves[k + 1], b, side)) :
                  b \in {BoardAfter(t, k - 1)} })

\* C12: own-castle entry.  In every returned turn a step that lands on a square
\* of the mover's own castle is a jump over an enemy piece (whose square is
\* among the captured ones); no plain move and no canter lands there.
C12_OwnCastleEntryByJump ==
    \A t \in Returned :
        \A k \in 1..(Len(t.moves) - 1) :
            Includes(Castle(side), t.moves[k + 1]) =>
                LET jump == isValidJump(t.moves[k], t.moves[k + 1],
                                        BoardAfter(t, k - 1), side)
                IN /\ jump.valid
                   /\ Includes(t.capturedSquares, jump.middleSquare)

\* a returned turn lands in the mover's own castle, while another piece of the
\* mover stands next to an empty square of that castle
C12_Witness ==
    /\ \E t \in Returned :
          \E k \in 2..Len(t.moves) : Includes(Castle(side), t.moves[k])
    /\ \E sq \in OwnSquares :
          \E i \in 1..Len(Castle(side)) :
             isOneAdjacent(sq, Castle(side)[i])

\* the notation of the first k squares of a path, built from the left
RECURSIVE PathPrefix(_, _, _)
PathPrefix(path, k, sep) ==
    IF k = 1 THEN SquareName(path[1])
    ELSE PathPrefix(path, k - 1, sep) \o sep \o SquareName(path[k])

C26_OneWayCastleEntry ==
    \A t \in Returned :
        Includes(Castle(Opponent(side)), t.startSquare)
            => Includes(Castle(Opponent(side)), t.endSquare)

Ordered == phase = "ordered"

\* how many times x occurs in the list xs
Occurrences(xs, x) == Cardinality({i \in 1..Len(xs) : xs[i] = x})

\* end rank minus start rank for White, start rank minus end rank for Black
Progress(t) ==
    IF side = "white" THEN t.endSquare[2] - t.startSquare[2]
    ELSE t.startSquare[2] - t.endSquare[2]

\* C23: orderMoves returns a permutation of its input in which a turn with
\* more captures precedes every turn with fewer; of two turns with the same
\* capture count the one ending in the opponent's castle comes first; of two
\* turns still tied the one with the greater rank progress comes first.
C23_OrderMovesSorted ==
    Ordered =>
        /\ Len(orderedMoves) = Len(turns)
        /\ \A i \in 1..Len(turns) :
              Occurrences(orderedMoves, turns[i]) = Occurrences(turns, turns[i])
        /\ \A i, j \in 1..Len(orderedMoves) :
              i < j =>
                LET a == orderedMoves[i]
                    b == orderedMoves[j]
                IN /\ Len(a.capturedSquares) >= Len(b.capturedSquares)
                   /\ Len(a.capturedSquares) = Len(b.capturedSquares) =>
                        /\ EndsInOpponentCastle(b) => EndsInOpponentCastle(a)
                        /\ (EndsInOpponentCastle(a) <=> EndsInOpponentCastle(b))
                              => Progress(a) >= Progress(b)

\* the sort changed the order, and the sorted list holds a castle entry
\* followed by a turn of the same capture count outside the castle, and two
\* turns told apart by their progress alone
C23_Witness ==
    /\ Ordered
    /\ orderedMoves # turns
    /\ \E i, j \in 1..Len(orderedMoves) :
          /\ i < j
          /\ Len(orderedMoves[i].capturedSquares) = Len(orderedMoves[j].capturedSquares)
          /\ EndsInOpponentCastle(orderedMoves[i])
          /\ ~EndsInOpponentCastle(orderedMoves[j])
    /\ \E i, j \in 1..Len(orderedMoves) :
          /\ i < j
          /\ Len(orderedMoves[i].capturedSquares) = Len(orderedMoves[j].capturedSquares)
          /\ ~EndsInOpponentCastle(orderedMoves[i])
          /\ ~EndsInOpponentCastle(orderedMoves[j])
          /\ Progress(orderedMoves[i]) > Progress(orderedMoves[j])

\* the square between the two ends of a two-square step
Between(from, to) == <<(from[1] + to[1]) \div 2, (from[2] + to[2]) \div 2>>

\* the k-th step of turn t jumps over a piece that the turn captures
StepCaptures(t, k) ==
    /\ isTwoAdjacent(t.moves[k], t.moves[k + 1])
    /\ Between(t.moves[k], t.moves[k + 1]) \in Range(t.capturedSquares)

---------------------------------------------------------------------------
(* Properties of searchIterativeDeepening.  In a state with pc = "done", ret *)
(* is the SearchResult the call returned; turns is, from the initial state   *)
(* on, generateAllLegalTurns(board, side) of the position searched.          *)

Returns == pc = "done"

\* C2: searchIterativeDeepening returns bestMove = null exactly when
\* generateAllLegalTurns(P, s) is empty, and otherwise one of the turns of
\* generateAllLegalTurns(P, s), for every maxDepth and wherever the deadline
\* falls.
C2_BestMoveIsLegalTurn ==
    Returns =>
        /\ (ret.bestMove = NoTurn) <=> (Len(turns) = 0)
        /\ Len(turns) > 0 => \E i \in 1..Len(turns) : ret.bestMove = turns[i]

\* a call whose deadline was seen in iteration 1 returned a move
C2_Witness ==
    /\ Returns
    /\ observedAt = 1
    /\ discarded # NoResult
    /\ ret.bestMove # NoTurn
    /\ ret.depth = 0

\* C3: when the deadline is seen during iteration d, the result returned is
\* the one recorded when iteration d-1 completed, with depth d-1; for d = 1 it
\* is the default of depth 0 and score 0.  Nothing of the result of iteration
\* d is returned.
C3_AbortReturnsLastCompleted ==
    (Returns /\ observedAt >= 1) =>
        /\ Len(completed) = observedAt - 1
        /\ ret.depth = observedAt - 1
        /\ IF observedAt = 1 THEN ret.score = 0
           ELSE ret = completed[observedAt - 1]

\* the deadline was seen in iteration 2 after that iteration had scored a move,
\* and the result it computed differs from the one returned
C3_Witness ==
    /\ Returns
    /\ observedAt = 2
    /\ discarded # NoResult
    /\ discarded.bestMove # ret.bestMove
    /\ discarded.score # ret.score

SearchReturned == pc \in {"done", "formatted"}
Formatted == pc = "formatted"

\* C16, as stated: when the side to move has no legal turn and the deadline
\* has not expired, the search returns bestMove = null and score = -CHECKMATE.
C16_NoTurnReturnsCheckmate ==
    (SearchReturned /\ turns = <<>> /\ ~expired)
        => ret.bestMove = NoTurn /\ ret.score = -CHECKMATE_SCORE

\* C16, amended: when the side to move has no legal turn, maxDepth is at
\* least 1 and the deadline has not expired, the search returns
\* bestMove = null and score = -CHECKMATE.
C16_NoTurnReturnsCheckmateFromDepthOne ==
    (SearchReturned /\ turns = <<>> /\ ~expired /\ maxDepth >= 1)
        => ret.bestMove = NoTurn /\ ret.score = -CHECKMATE_SCORE

\* a search of depth 1 or more, never timed out, of a position where the
\* opponent has pieces and the side to move has no turn
C16_Witness ==
    /\ SearchReturned
    /\ turns = <<>>
    /\ DOMAIN board # {}
    /\ ~expired
    /\ maxDepth >= 1
    /\ ret.score = -CHECKMATE_SCORE

\* C17, as stated: when the side to move has no legal turn, the depth of the
\* search result, and of the engine analysis, is 0.
C17_NoTurnDepthZero ==
    turns = <<>> =>
        /\ SearchReturned => ret.depth = 0
        /\ Formatted => analysis.depth = 0

\* C17, amended: when the side to move has no legal turn, the depth of the
\* search result, and of the engine analysis, is 1 if an iteration ran (which
\* it does when maxDepth is at least 1 and the deadline has not expired) and 0
\* otherwise.
C17_NoTurnDepthIsIterationsRun ==
    turns = <<>> =>
        /\ SearchReturned =>
              /\ ret.depth = IF completed # <<>> THEN 1 ELSE 0
              /\ (maxDepth >= 1 /\ ~expired) => ret.depth = 1
        /\ Formatted => analysis.depth = ret.depth

\* the analysis of a position without a turn reports depth 1
C17_Witness ==
    /\ Formatted
    /\ turns = <<>>
    /\ maxDepth >= 1
    /\ analysis.depth = 1
    /\ analysis.bestMove = NoTurn

\* C18, as stated: the evaluation of the analysis is the score the search
\* returned for the side to move, for both colours.
C18_EvaluationIsMoverRelative ==
    Formatted => analysis.evaluation = ret.score

\* C18, amended: the evaluation of the analysis is the search score seen from
\* White: the score itself when White is to move, its negation when Black is.
C18_EvaluationIsWhiteRelative ==
    Formatted =>
        /\ side = "white" => analysis.evaluation = ret.score
        /\ side = "black" => analysis.evaluation + ret.score = 0

\* Black to move, the search found Black ahead, and the analysis is negative
C18_Witness ==
    /\ Formatted
    /\ side = "black"
    /\ ret.bestMove # NoTurn
    /\ ret.score > 0
    /\ analysis.evaluation < 0

\* a score that the search takes for a forced mate
MateScore(score) == Abs(score) * 2 > CHECKMATE_SCORE

\* C31: once a completed iteration has returned a score of magnitude above
\* CHECKMATE_SCORE / 2, no deeper iteration is started, and the result
\* returned is that iteration's result.
C31_MateStopsDeepening ==
    \A i \in 1..Len(completed) :
        MateScore(completed[i].score) =>
            /\ i = Len(completed)
            /\ searchDepth = completed[i].depth
            /\ pc \in {"finish", "done", "formatted"}
            /\ SearchReturned => ret = completed[i]

\* the first iteration returned a mate score, the search returned it, and a
\* deeper iteration was allowed
C31_Witness ==
    /\ pc = "done"
    /\ Len(completed) = 1
    /\ MateScore(completed[1].score)
    /\ completed[1].bestMove # NoTurn
    /\ ret = completed[1]
    /\ ret.depth < maxDepth
    /\ ~aborted

\* the root search of the current iteration is under way or has just returned
InIteration == pc \in {"root", "rootEnd", "record"}

\* C32: the iterations run at depths 1, 2, 3, ... in this order, the root
\* search of a depth starts only after that of the depth before has
\* returned, and the depth of the result returned is between 0 and maxDepth
\* and is 0 only when no iteration completed.
C32_IterationsInOrder ==
    /\ \A i \in 1..Len(completed) : completed[i].depth = i
    /\ InIteration => (searchDepth = Len(completed) + 1 /\ searchDepth <= maxDepth)
    /\ SearchReturned =>
          /\ ret.depth \in 0..maxDepth
          /\ ret.depth = 0 => completed = <<>>

\* two iterations completed without a mate score, and the second one's result
\* was returned
C32_Witness ==
    /\ pc = "done"
    /\ Len(completed) = 2
    /\ ~MateScore(completed[1].score)
    /\ ret = completed[2]
    /\ ret.depth = 2

\* searchRoot returned a move for an iteration in which no deadline was seen
RootCompleted == pc = "record" /\ ~aborted /\ rootResult.bestMove # NoTurn

\* the recorded scores above the score returned
RecordedAbove == {i \in 1..Len(topMoves) : topMoves[i].score > rootResult.score}

\* C33: the move returned for a completed depth is one of the three root
\* turns with the highest recorded scores (the highest when one turn was
\* explored), and the score returned is the recorded score of that move.
C33_RandomPickWithinTopThree ==
    RootCompleted =>
        /\ \E i \in 1..Len(topMoves) :
              /\ topMoves[i].move = rootResult.bestMove
              /\ topMoves[i].score = rootResult.score
        /\ Cardinality(RecordedAbove) < 3
        /\ Len(topMoves) = 1 => RecordedAbove = {}

\* four turns were explored with differing scores and the move returned is
\* the third best
C33_Witness ==
    /\ RootCompleted
    /\ Len(topMoves) = 4
    /\ Cardinality(RecordedAbove) = 2
    /\ \E i \in 1..Len(topMoves) : topMoves[i].score < rootResult.score

---------------------------------------------------------------------------
(* Properties of win detection and of the evaluator (SpecEval) *)

Evaluated == phase = "evaluated"
Judged == phase = "judged"

\* the number of pieces of colour c
PieceCount(b, c) == Cardinality({sq \in DOMAIN b : b[sq].color = c})

\* c stands on both squares of the opponent's castle
HoldsCastle(b, c) ==
    \A i \in 1..Len(Castle(Opponent(c))) : At(b, Castle(Opponent(c))[i]).color = c

\* no piece of colour c has an initial move
NoInitialMove(b, c) ==
    \A sq \in DOMAIN b : b[sq].color = c => getInitialMoves(sq, b, c) = <<>>

\* the three ways of winning, as the rules state them
WinsBy(b, c) ==
    IF HoldsCastle(b, c) THEN "castle_occupation"
    ELSE IF PieceCount(b, Opponent(c)) = 0 /\ PieceCount(b, c) >= 2 THEN "capture_all"
    ELSE IF PieceCount(b, c) >= 2 /\ NoInitialMove(b, Opponent(c)) THEN "stalemate"
    ELSE "null"

\* C13: in every position where White satisfies a win condition,
\* evaluate(P, "white") is exactly +CHECKMATE_SCORE, whatever the random term.
C13_WhiteWinIsCheckmateScore ==
    (Evaluated /\ side = "white" /\ WinsBy(board, "white") # "null")
        => evaluation = CHECKMATE_SCORE * Unit

\* White to move has won by shutting Black in, and the random term drawn
\* would have changed a static score
C13_Witness ==
    /\ Evaluated
    /\ side = "white"
    /\ WinsBy(board, "white") = "stalemate"
    /\ evaluation = CHECKMATE_SCORE * Unit
    /\ staticScore(board, 0) # CHECKMATE_SCORE * Unit

\* C14: checkWinCondition(P, c) is "castle_occupation" exactly when c holds
\* both squares of the opponent's castle, otherwise "capture_all" exactly when
\* the opponent has no piece and c has at least 2, otherwise "stalemate"
\* exactly when c has at least 2 and no opponent piece has an initial move,
\* otherwise null; a side with fewer than 2 pieces never wins by capture or
\* stalemate.
C14_WinConditionCases ==
    Judged =>
        /\ winner = WinsBy(board, winFor)
        /\ winner \in {"capture_all", "stalemate"} => PieceCount(board, winFor) >= 2

\* a side with two pieces or more has shut in an opponent who still has pieces
C14_Witness ==
    /\ Judged
    /\ winner = "stalemate"
    /\ PieceCount(board, Opponent(winFor)) >= 1
    /\ PieceCount(board, winFor) >= 2

\* the position with every colour swapped and every rank r replaced by 17 - r
Mirror(b) ==
    [sq \in {<<s[1], 17 - s[2]>> : s \in DOMAIN b} |->
        [type |-> b[<<sq[1], 17 - sq[2]>>].type,
         color |-> Opponent(b[<<sq[1], 17 - sq[2]>>].color)]]

\* C15: with the random term removed, the evaluation of the mirrored
\* position for the opposite side is the negation of the evaluation of the
\* position.
C15_EvaluatorSymmetry ==
    (Evaluated /\ evaluation = evaluate(board, side, 0))
        => evaluate(Mirror(board), Opponent(side), 0) = -evaluation

\* C15, restricted to positions that neither side has won: there the
\* negation holds.
C15_SymmetryOfStaticScore ==
    (Evaluated /\ evaluation = evaluate(board, side, 0)
       /\ checkWinCondition(board, "white") = "null"
       /\ checkWinCondition(board, "black") = "null")
        => evaluate(Mirror(board), Opponent(side), 0) = -evaluation

Leaf == phase = "leaf"

\* C27: at a search leaf a position won by the side not to move scores
\* -CHECKMATE for the side to move, and a position won by the side to move
\* scores +CHECKMATE, whichever colour the winner has.
C27_TerminalScoreHasNegamaxSign ==
    Leaf =>
        /\ (WinsBy(board, Opponent(side)) # "null" /\ WinsBy(board, side) = "null")
              => evaluation = -(CHECKMATE_SCORE * Unit)
        /\ (WinsBy(board, side) # "null" /\ WinsBy(board, Opponent(side)) = "null")
              => evaluation = CHECKMATE_SCORE * Unit

\* C27 for White to move only: there the sign is the negamax sign.
C27_NegamaxSignForWhite ==
    (Leaf /\ side = "white") =>
        /\ (WinsBy(board, "black") # "null" /\ WinsBy(board, "white") = "null")
              => evaluation = -(CHECKMATE_SCORE * Unit)
        /\ WinsBy(board, "white") # "null" => evaluation = CHECKMATE_SCORE * Unit

---------------------------------------------------------------------------
(* Properties of the transposition table (SpecTT) *)

Stored == lastOp.op = "store"

\* the entry a store writes
Written ==
    [key |-> KeyString(lastOp.zobristKey), zobristKey |-> lastOp.zobristKey,
     depth |-> lastOp.depth, score |-> lastOp.payload.score,
     flag |-> lastOp.payload.flag,
     bestMoveNotation |-> lastOp.payload.bestMoveNotation]

\* the entry held for the key of the store before it
Held == get(lastOp.before, KeyString(lastOp.zobristKey))

\* C19: a store leaves an existing entry of strictly greater depth completely
\* unchanged; otherwise, with room for one entry at least, a following probe
\* of the key returns exactly what was stored.  The depth held for a key never
\* decreases while the key stays in the table.
C19_DepthPreferringStore ==
    Stored =>
        /\ IF Held # NoEntry /\ Held.depth > lastOp.depth
           THEN table = lastOp.before /\ probe(table, lastOp.zobristKey) = Held
           ELSE maxBytes >= EntryBytes => probe(table, lastOp.zobristKey) = Written
        /\ \A k \in ZobristKeys :
              (probe(lastOp.before, k) # NoEntry /\ probe(table, k) # NoEntry)
                  => probe(table, k).depth >= probe(lastOp.before, k).depth

\* a shallower store found a deeper entry, with a different payload, in a
\* table that holds another key as well
C19_Witness ==
    /\ Stored
    /\ Held # NoEntry
    /\ Held.depth > lastOp.depth
    /\ Held.score # lastOp.payload.score
    /\ Len(table) >= 2

\* C20: the table never holds more than maxSize entries; a store of a new key
\* that makes the size exceed maxSize removes exactly one entry, the one whose
\* key was inserted earliest among those present, an overwritten key keeping
\* its age; any other store removes nothing.
C20_BoundedFifo ==
    /\ Len(table) * EntryBytes <= maxBytes
    /\ Stored =>
          LET key == KeyString(lastOp.zobristKey)
              before == lastOp.before
          IN IF Held = NoEntry /\ (Len(before) + 1) * EntryBytes > maxBytes
             THEN /\ KeysOf(table) = (KeysOf(before) \cup {key}) \ {Head(lastOp.inserted)}
                  /\ \A k \in KeysOf(table) \ {key} : get(table, k) = get(before, k)
             ELSE /\ KeysOf(table) = KeysOf(before) \cup {key}
                  /\ \A k \in KeysOf(table) \ {key} : get(table, k) = get(before, k)

\* a full table of two keys took a third key and lost the older of the two
C20_Witness ==
    /\ Stored
    /\ Held = NoEntry
    /\ Len(lastOp.before) = 2
    /\ Len(table) = 2
    /\ lastOp.before[1].depth > 0
    /\ lastOp.before[1].key \notin KeysOf(table)
    /\ lastOp.before[2].key \in KeysOf(table)

---------------------------------------------------------------------------
(* Properties of executeStep (SpecStep) *)

Stepped == call.name = "executeStep"

DocumentedReasons ==
    {"Invalid move", "Must continue jumping", "Only knights can jump after cantering",
     "Can only make a plain move on the first step"}

\* the arguments of the call are after it what they were before it, and what
\* it returns are the two objects it allocated
ArgumentsUntouched ==
    /\ call.after.boardState = call.before.boardState
    /\ call.after.turnState = call.before.turnState
    /\ call.result.success =>
          /\ call.result.newBoardState = call.after.newBoardState
          /\ call.result.newTurnState = call.after.newTurnState

\* C24, as stated: a rejected step carries one of the four documented reasons,
\* and the boardState and turnState passed in are never modified.
C24_DocumentedFailureNoMutation ==
    Stepped =>
        /\ ~call.result.success => call.result.error \in DocumentedReasons
        /\ ArgumentsUntouched

\* C24, amended: a rejected step carries one of the four documented reasons or
\* "No piece at current position", and the boardState and turnState passed in
\* are never modified.
C24_FailureReasonNoMutation ==
    Stepped =>
        /\ ~call.result.success =>
              call.result.error \in DocumentedReasons \cup {"No piece at current position"}
        /\ ArgumentsUntouched

\* the second step of a turn was a jump: a piece left the board, the new turn
\* state differs from the one passed in and the turn must go on
C24_Witness ==
    /\ Stepped
    /\ call.result.success
    /\ Len(call.before.turnState.moves) >= 2
    /\ Len(call.result.newTurnState.capturedSquares)
           > Len(call.before.turnState.capturedSquares)
    /\ call.result.newTurnState.mustContinue
    /\ call.after.newBoardState # call.before.boardState

---------------------------------------------------------------------------
(* Properties of the Zobrist hash (SpecHash) *)

Hashed == call.name \in {"computeHash", "computeHash again"}
HashedAfterTurn == call.name = "computeHash after a turn"

\* C21: a repeated call on equal inputs returns the same hash; the hash for
\* Black to move is the hash for White to move XOR turnKey; so the hashes for
\* the two sides to move differ.
C21_HashOfInputsAndSide ==
    Hashed =>
        /\ call.hash = (IF call.currentPlayer = "white" THEN call.white ELSE call.black)
        /\ call.black = Xor(call.white, zobrist.turnKey)
        /\ call.black # call.white

\* C21 without its conclusion: repeated calls agree and the two hashes differ
\* by turnKey.
C21_HashesDifferByTurnKey ==
    Hashed =>
        /\ call.hash = (IF call.currentPlayer = "white" THEN call.white ELSE call.black)
        /\ call.black = Xor(call.white, zobrist.turnKey)
        /\ (zobrist.turnKey # 0) => call.black # call.white

\* the key of the piece that stood on sq before the turn, were it on square at
PieceKeyAt(sq, at) ==
    zobrist.pieceKeys[<<at, call.gameState.board_state[sq].type,
                        call.gameState.board_state[sq].color>>]

\* C22: the hash of the position after a legal turn, for the other side, is
\* the hash before it XOR the key of the moved piece on its origin XOR its key
\* on its end square XOR the key of every captured piece on its square XOR
\* turnKey.
C22_HashRoundTrip ==
    HashedAfterTurn =>
        LET t == call.move
        IN call.hash =
             Xor(Xor(Xor(Xor(call.before, PieceKeyAt(t.startSquare, t.startSquare)),
                         PieceKeyAt(t.startSquare, t.endSquare)),
                     XorAll([i \in 1..Len(t.capturedSquares) |->
                                PieceKeyAt(t.capturedSquares[i], t.capturedSquares[i])])),
                 zobrist.turnKey)

\* a capturing turn was applied, with non-zero keys for the turn, for the
\* captured piece and for a castle counter, and the hash changed
C22_Witness ==
    /\ HashedAfterTurn
    /\ call.move.capturedSquares # <<>>
    /\ zobrist.turnKey # 0
    /\ PieceKeyAt(call.move.capturedSquares[1], call.move.capturedSquares[1]) # 0
    /\ call.gameState.white_castle_moves = CASTLE_KEY_COUNT
    /\ zobrist.whiteCastleKeys[CASTLE_KEY_COUNT] # 0
    /\ call.hash # call.before

---------------------------------------------------------------------------
(* Properties of an alphaBeta node (SpecNode) *)

\* alphaBeta went through its move loop, stored and returned
NodeStored == node.pc = "returned" /\ node.via = "loop"

\* some child's score exceeded the alpha the loop started with
AlphaRaised == \E i \in 1..Len(node.scores) : node.scores[i] > node.started

\* C28: a node whose move loop ends without a beta cutoff and without a
\* child's score above the alpha the loop started with stores "upperbound";
\* "exact" is stored only when a child raised alpha without a cutoff, and
\* "lowerbound" only on a beta cutoff.
C28_StoredFlagSemantics ==
    NodeStored =>
        /\ (~node.cutoff /\ Len(node.scores) = node.moves /\ ~AlphaRaised)
              => lastOp.payload.flag = "upperbound"
        /\ lastOp.payload.flag = "exact" => (AlphaRaised /\ ~node.cutoff)
        /\ lastOp.payload.flag = "lowerbound" => node.cutoff

\* the part of C28 about "lowerbound": it is stored on a beta cutoff and only
\* then
C28_LowerboundIffCutoff ==
    NodeStored => (lastOp.payload.flag = "lowerbound" <=> node.cutoff)

\* C29: a node that returns after the deadline was observed has written no
\* entry to the table.
C29_NoStoreAfterAbort ==
    (NodeStored /\ aborted) => table = lastOp.before

\* a node that returns before the deadline is observed stores a score that
\* one of its children returned
C29_StoreBeforeAbortHoldsChildScore ==
    (NodeStored /\ ~aborted) => lastOp.payload.score \in Range(node.scores)

\* C30: of two nodes of one iteration in which the side to move has no legal
\* turn, the one further from the root (of smaller remaining depth) has a
\* score at least as high as the one nearer the root.
C30_SlowerLossNotWorse ==
    (/\ node.pc = "returned" /\ node.via = "no moves"
     /\ call.name = "alphaBeta" /\ call.via = "no moves"
     /\ node.depth < call.depth)
        => node.ret >= call.ret

\* the score of a lost node is the mate score less its remaining depth
C30_LostNodeScoreByRemainingDepth ==
    (node.pc = "returned" /\ node.via = "no moves")
        => node.ret + CHECKMATE_SCORE = node.depth

---------------------------------------------------------------------------
(* Properties of the tests for a move (SpecMoves) *)

Compared == phase = "compared"

\* C35: the generator returns no turn exactly when hasLegalMoves is false,
\* and exactly when getInitialMoves is empty for every piece of the side; so
\* checkWinCondition reports a stalemate only where the generator returns no
\* turn, and where the generator returns no turn for a side that has pieces
\* and the other side has two pieces or more, checkWinCondition reports a win.
C35_HasMoveNotionsAgree ==
    Compared =>
        /\ (turns = <<>>) <=> ~call.result
        /\ call.result <=> ~NoInitialMove(board, side)
        /\ winner = "stalemate" => turns = <<>>
        /\ (turns = <<>> /\ PieceCount(board, Opponent(side)) >= 2) => winner # "null"

\* the side to move has a piece and no move, and the other side wins by
\* stalemate
C35_Witness ==
    /\ Compared
    /\ PieceCount(board, side) > 0
    /\ turns = <<>>
    /\ ~call.result
    /\ winner = "stalemate"

---------------------------------------------------------------------------
(* Properties of the recursion of the search (SpecDescent) *)

\* the remaining depth has gone down by one at each call below searchRoot, and
\* quiescence has called itself no more often than pieces were captured since
\* it was entered
RecursionMeasure ==
    /\ node.depth >= 0
    /\ node.pc \in {"searchRoot", "alphaBeta"} => node.depth + node.ply = searchDepth
    /\ node.nesting <= node.entered - PiecesOn(board)
    /\ node.nesting <= node.entered

---------------------------------------------------------------------------
(* Properties of the online game page (SpecOnline).  client.submitted holds *)
(* the player and the squares of the last turn submitted, and the counters  *)
(* as they were before it.                                                  *)

Submitted == client.screen = "online" /\ client.submitted # NoSubmit

\* the turn took a piece from one square of the castle to the other
BetweenCastleSquares(moves, castle) ==
    /\ Includes(castle, moves[1])
    /\ Includes(castle, moves[Len(moves)])
    /\ moves[1] # moves[Len(moves)]

\* C37: a castle-move counter changes only when that colour moves a piece
\* from one square of the opponent's castle to the other; a turn that merely
\* enters the opponent's castle leaves both counters unchanged
C37_CounterCountsCastleMoves ==
    Submitted =>
        LET s == client.submitted
        IN /\ client.white_castle_moves # s.white_castle_moves
                => s.player = "white" /\ BetweenCastleSquares(s.moves, BLACK_CASTLE)
           /\ client.black_castle_moves # s.black_castle_moves
                => s.player = "black" /\ BetweenCastleSquares(s.moves, WHITE_CASTLE)

\* what the code does: the mover's counter goes up by one exactly when the
\* turn ends on a square of the opponent's castle, wherever it started
C37_CounterCountsTurnsEndingInCastle ==
    Submitted =>
        LET s == client.submitted
            last == s.moves[Len(s.moves)]
            ended == Includes(oppCastle(s.player), last)
            up(c) == IF ended /\ s.player = c THEN 1 ELSE 0
        IN /\ client.white_castle_moves = s.white_castle_moves + up("white")
           /\ client.black_castle_moves = s.black_castle_moves + up("black")

\* a turn from F16 to G16 (or back, or in White's castle) was submitted
C37_CastleMoveSubmitted ==
    /\ Submitted
    /\ BetweenCastleSquares(client.submitted.moves, oppCastle(client.submitted.player))

---------------------------------------------------------------------------
(* Properties of the computer-game screen (SpecClient) *)

OnComputerScreen == client.screen = "computer"

\* C38: between the start of the human's turn and Submit Turn at most one of
\* the human's pieces changes square: once a step has been executed, a click
\* on another own piece never starts a new turn state on the modified board
C38_OnePiecePerHumanTurn ==
    OnComputerScreen => ~client.restarted /\ client.moved <= 1

\* C39: the turn passes from the human to the computer only after a step:
\* Submit Turn with a turn state that holds only the start square does not
\* change currentTurn
C39_SubmitWithoutStepKeepsTurn ==
    OnComputerScreen /\ client.submitted # NoSubmit
                     /\ Len(client.submitted.moves) = 1
        => side = client.submitted.player

\* C40: a computer move scheduled before New Game is never applied after it:
\* from New Game until something is done in the new game, the board, the move
\* history and the side to move are those of a fresh game
C40_NewGameIsFresh ==
    OnComputerScreen /\ client.fresh
        => /\ board = getInitialBoardState
           /\ client.moveHistory = <<>>
           /\ side = "white"

=============================================================================
